---- MODULE Spec2Model ----
(***************************************************************************)
(* A model of the budget-document extraction pipeline:                     *)
(*   DataExtractor   (pdf_processor/data_extractor.py)                     *)
(*   FormatDetector  (pdf_processor/format_detector.py)                    *)
(*                                                                         *)
(* Text is a sequence of one-character strings.  Regular expressions are   *)
(* syntax trees interpreted by a backtracking matcher with the priority    *)
(* order of Python's re module (leftmost match, greedy/lazy quantifiers,   *)
(* ordered alternation, capture groups), so every pattern of the source is *)
(* written down as it stands there.  Decimal values are pairs              *)
(* (mantissa, number of decimals) with Python's exact Decimal arithmetic.  *)
(***************************************************************************)
EXTENDS Integers, Sequences, FiniteSets, TLC

(***************************************************************************)
(* Characters                                                              *)
(***************************************************************************)
Digits == {"0", "1", "2", "3", "4", "5", "6", "7", "8", "9"}

LowerSeq == <<"a", "b", "c", "d", "e", "f", "g", "h", "i", "j", "k", "l", "m",
              "n", "o", "p", "q", "r", "s", "t", "u", "v", "w", "x", "y", "z",
              "á", "é", "í", "ó", "ú", "ñ">>

UpperSeq == <<"A", "B", "C", "D", "E", "F", "G", "H", "I", "J", "K", "L", "M",
              "N", "O", "P", "Q", "R", "S", "T", "U", "V", "W", "X", "Y", "Z",
              "Á", "É", "Í", "Ó", "Ú", "Ñ">>

LowerSet == {LowerSeq[i] : i \in 1..Len(LowerSeq)}

UpperSet == {UpperSeq[i] : i \in 1..Len(UpperSeq)}

AsciiLower == {LowerSeq[i] : i \in 1..26}

AsciiUpper == {UpperSeq[i] : i \in 1..26}

LowerMap == [c \in UpperSet |-> LowerSeq[CHOOSE i \in 1..Len(UpperSeq) : UpperSeq[i] = c]]

UpperMap == [c \in LowerSet |-> UpperSeq[CHOOSE i \in 1..Len(LowerSeq) : LowerSeq[i] = c]]

\* str.lower() and str.upper() on one character
LowerCh(c) == IF c \in UpperSet THEN LowerMap[c] ELSE c

UpperCh(c) == IF c \in LowerSet THEN UpperMap[c] ELSE c

\* \s of the re module; the control characters [\x00-\x1f\x7f-\x9f] of _clean_text
SpaceSet == {" ", "\t", "\n", "\r", "\f"}

ControlSet == {"\t", "\n", "\r", "\f"}

\* \w of the re module: letters, digits and the underscore
WordSet == LowerSet \cup UpperSet \cup Digits \cup {"_"}

(***************************************************************************)
(* Regular expressions: syntax                                             *)
(***************************************************************************)
Inf == 0 - 1

Lit(c) == [t |-> "lit", c |-> c]

Set(S) == [t |-> "set", s |-> S, neg |-> FALSE]

Dot == [t |-> "any"]

Cat(rs) == [t |-> "seq", rs |-> rs]

Alt(rs) == [t |-> "alt", rs |-> rs]

Rep(r, lo, hi) == [t |-> "rep", r |-> r, lo |-> lo, hi |-> hi, lazy |-> FALSE]

RepLazy(r, lo, hi) == [t |-> "rep", r |-> r, lo |-> lo, hi |-> hi, lazy |-> TRUE]

Star(r) == Rep(r, 0, Inf)

Plus(r) == Rep(r, 1, Inf)

Opt(r) == Rep(r, 0, 1)

Grp(n, r) == [t |-> "grp", n |-> n, r |-> r]

Bol == [t |-> "bol"]

Eol == [t |-> "eol"]

WordB == [t |-> "wb"]

\* a literal word
Word(w) == [t |-> "str", w |-> w]

\* \d, \s
DigitC == Set(Digits)

SpaceC == Set(SpaceSet)

\* flags: re.IGNORECASE, re.MULTILINE
NoFlags == [ic |-> FALSE, ml |-> FALSE]

IgnoreCase == [ic |-> TRUE, ml |-> FALSE]

IgnoreCaseMultiline == [ic |-> TRUE, ml |-> TRUE]

(***************************************************************************)
(* Regular expressions: the matcher.  R(re, s, i, caps, fl) is the sequence *)
(* of all the ways re matches s from position i on, each an outcome (the    *)
(* position after the match and the groups captured), in the order in which *)
(* Python's backtracking matcher tries them; its first element is the match *)
(* re.match reports.                                                        *)
(***************************************************************************)
EqCh(a, b, fl) == IF fl.ic THEN LowerCh(a) = LowerCh(b) ELSE a = b

InSet(c, set, fl) ==
    IF fl.ic THEN c \in set \/ LowerCh(c) \in set \/ UpperCh(c) \in set
    ELSE c \in set

IsWordAt(s, i) == i >= 1 /\ i <= Len(s) /\ s[i] \in WordSet

\* a one-character expression, and whether character c matches it
IsSingle(re) == re.t \in {"lit", "set", "any"}

MatchesCh(re, c, fl) ==
    CASE re.t = "lit" -> EqCh(c, re.c, fl)
      [] re.t = "set" -> InSet(c, re.s, fl) # re.neg
      [] re.t = "any" -> c # "\n"

\* the sequence f with its elements computed
AsSeq(f) == f \o <<>>

\* Python computes the values of its statements in order: In(x), once the
\* value x it depends on is computed
With(x, In(_)) == CASE x = x -> In(x)

MinOf(set) == CHOOSE x \in set : \A y \in set : x <= y

\* the number of characters from position i on that match the one-character
\* expression re, at most hi of them
RunLength(re, s, i, hi, fl) ==
    With({k \in 1..(Len(s) - i + 1) : ~MatchesCh(re, s[i + k - 1], fl)}, LAMBDA bad :
      With(IF bad = {} THEN Len(s) - i + 1 ELSE MinOf(bad) - 1, LAMBDA run :
        IF hi # Inf /\ hi < run THEN hi ELSE run))

\* whether the assertion re (^, $ or \b) holds at position i
Holds(re, s, i, fl) ==
    CASE re.t = "bol" -> i = 1 \/ (fl.ml /\ s[i - 1] = "\n")
      [] re.t = "eol" -> \/ i = Len(s) + 1
                         \/ (i = Len(s) /\ s[i] = "\n")
                         \/ (fl.ml /\ i <= Len(s) /\ s[i] = "\n")
      [] re.t = "wb" -> IsWordAt(s, i - 1) # IsWordAt(s, i)

\* the concatenation of the sequences ss[1], ..., ss[Len(ss)]; before[k] is
\* the number of elements before those of ss[k]
Concat(ss) ==
    With(AsSeq(ss), LAMBDA parts :
      With(AsSeq([k \in 1..(Len(parts) + 1) |->
                    Cardinality(UNION {{<<x, y>> : y \in 1..Len(parts[x])} : x \in 1..(k - 1)})]),
           LAMBDA before :
             AsSeq([r \in 1..before[Len(parts) + 1] |->
                      With(CHOOSE x \in 1..Len(parts) : before[x] < r /\ r <= before[x + 1],
                           LAMBDA k : parts[k][r - before[k]])])))

RECURSIVE R(_, _, _, _, _)
RECURSIVE Then(_, _, _, _)
RECURSIVE SeqRange(_, _, _, _, _, _)
RECURSIVE RepMore(_, _, _, _, _)

\* every outcome of outs continued by re
Then(outs, re, s, fl) ==
    IF outs = <<>> THEN <<>>
    ELSE IF Len(outs) = 1 THEN R(re, s, outs[1].end, outs[1].caps, fl)
    ELSE Concat([k \in 1..Len(outs) |-> R(re, s, outs[k].end, outs[k].caps, fl)])

\* outs continued by rs[a], ..., rs[b] in turn
SeqRange(rs, a, b, outs, s, fl) ==
    IF a = b THEN Then(outs, rs[a], s, fl)
    ELSE LET left == SeqRange(rs, a, (a + b) \div 2, outs, s, fl)
         IN IF left = <<>> THEN <<>> ELSE SeqRange(rs, (a + b) \div 2 + 1, b, left, s, fl)

\* the outcomes of a repetition re of which n rounds have led to outcome o;
\* a round that matches the empty string is not repeated
RepMore(re, n, o, s, fl) ==
    LET stop == IF n >= re.lo THEN <<o>> ELSE <<>>
        rounds == IF re.hi = Inf \/ n < re.hi
                  THEN SelectSeq(R(re.r, s, o.end, o.caps, fl), LAMBDA x : x.end > o.end)
                  ELSE <<>>
        more == IF rounds = <<>> THEN <<>>
                ELSE IF Len(rounds) = 1 THEN RepMore(re, n + 1, rounds[1], s, fl)
                ELSE Concat([k \in 1..Len(rounds) |-> RepMore(re, n + 1, rounds[k], s, fl)])
    IN IF re.lazy THEN stop \o more ELSE more \o stop

R(re, s, i, caps, fl) ==
    CASE IsSingle(re) ->
           IF i <= Len(s) /\ MatchesCh(re, s[i], fl)
           THEN <<[end |-> i + 1, caps |-> caps]>> ELSE <<>>
      [] re.t = "str" ->
           IF i + Len(re.w) - 1 <= Len(s)
              /\ \A k \in 1..Len(re.w) : EqCh(s[i + k - 1], re.w[k], fl)
           THEN <<[end |-> i + Len(re.w), caps |-> caps]>> ELSE <<>>
      [] re.t = "seq" ->
           SeqRange(re.rs, 1, Len(re.rs), <<[end |-> i, caps |-> caps]>>, s, fl)
      [] re.t = "alt" ->
           Concat([k \in 1..Len(re.rs) |-> R(re.rs[k], s, i, caps, fl)])
      [] re.t = "rep" ->
           IF IsSingle(re.r)
           THEN With(RunLength(re.r, s, i, re.hi, fl), LAMBDA run :
                  IF run - re.lo + 1 <= 0 THEN <<>>
                  ELSE AsSeq([k \in 1..(run - re.lo + 1) |->
                          [end |-> i + (IF re.lazy THEN re.lo + k - 1 ELSE run - k + 1),
                           caps |-> caps]]))
           ELSE RepMore(re, 0, [end |-> i, caps |-> caps], s, fl)
      [] re.t = "grp" ->
           LET inner == R(re.r, s, i, caps, fl)
           IN AsSeq([k \in 1..Len(inner) |->
                 [end |-> inner[k].end,
                  caps |-> [inner[k].caps EXCEPT ![re.n] = <<i, inner[k].end>>]]])
      [] OTHER ->
           IF Holds(re, s, i, fl) THEN <<[end |-> i, caps |-> caps]>> ELSE <<>>

NoCaps(ng) == [g \in 1..ng |-> <<0, 0>>]

NoMatch == [end |-> 0 - 1, caps |-> <<>>]

IsMatch(m) == m.end # 0 - 1

\* a necessary condition for re to match from position i on, cheap to tell:
\* the assertions re begins with hold at i, and the character at i is one re
\* can begin with, unless re can match without consuming any
RECURSIVE MayStart(_, _, _, _)
RECURSIVE MayStartFrom(_, _, _, _, _)
MayStart(re, s, i, fl) ==
    CASE IsSingle(re) -> i <= Len(s) /\ MatchesCh(re, s[i], fl)
      [] re.t = "str" -> re.w = <<>> \/ (i <= Len(s) /\ EqCh(s[i], re.w[1], fl))
      [] re.t = "seq" -> MayStartFrom(re.rs, 1, s, i, fl)
      [] re.t = "alt" -> \E k \in 1..Len(re.rs) : MayStart(re.rs[k], s, i, fl)
      [] re.t = "rep" -> re.lo = 0 \/ MayStart(re.r, s, i, fl)
      [] re.t = "grp" -> MayStart(re.r, s, i, fl)
      [] OTHER -> Holds(re, s, i, fl)

MayStartFrom(rs, k, s, i, fl) ==
    IF k > Len(rs) THEN TRUE
    ELSE IF rs[k].t \in {"bol", "eol", "wb"}
    THEN Holds(rs[k], s, i, fl) /\ MayStartFrom(rs, k + 1, s, i, fl)
    ELSE MayStart(rs[k], s, i, fl)

\* re.match: the match starting at position i, or NoMatch
MatchAt(re, ng, s, i, fl) ==
    IF ~MayStart(re, s, i, fl) THEN NoMatch
    ELSE With(R(re, s, i, NoCaps(ng), fl), LAMBDA outs :
           IF outs = <<>> THEN NoMatch ELSE outs[1])

NoFind == [start |-> 0 - 1, end |-> 0 - 1, caps |-> <<>>]

Found(f) == f.start # 0 - 1

\* re.search from position i on: the leftmost match
SearchFrom(re, ng, s, i, fl) ==
    With({p \in {<<j, MatchAt(re, ng, s, j, fl)>> : j \in i..(Len(s) + 1)} : IsMatch(p[2])},
         LAMBDA hits :
           IF hits = {} THEN NoFind
           ELSE With(CHOOSE p \in hits : \A q \in hits : p[1] <= q[1], LAMBDA p :
                  [start |-> p[1], end |-> p[2].end, caps |-> p[2].caps]))

Search(re, ng, s, fl) == SearchFrom(re, ng, s, 1, fl)

\* the text of s from position a up to, not including, position b
Slice(s, a, b) == SubSeq(s, a, b - 1)

\* match.group(n); "" stands for a group that took no part (None)
Group(s, f, n) ==
    IF f.caps[n] = <<0, 0>> THEN <<>> ELSE Slice(s, f.caps[n][1], f.caps[n][2])

\* the elements of a set of integers in ascending order
SortedSeq(set) ==
    [k \in 1..Cardinality(set) |-> CHOOSE x \in set : Cardinality({y \in set : y < x}) = k - 1]

\* the positions reached from those of from by following jump, which moves
\* forward, at most 2^k - 1 times
RECURSIVE Orbit(_, _, _)
Orbit(jump, from, k) ==
    IF k = 0 THEN from
    ELSE LET next == from \cup {jump[p] : p \in from}
         IN IF next = from THEN from
            ELSE Orbit([p \in DOMAIN jump |-> jump[jump[p]]], next, k - 1)

\* re.finditer: the non-overlapping matches, left to right.  The scan resumes
\* at the end of a match (one further after an empty match).
FindIter(re, ng, s, fl) ==
    With(SelectSeq([j \in 1..(Len(s) + 1) |->
                      With(MatchAt(re, ng, s, j, fl), LAMBDA m :
                        [start |-> IF IsMatch(m) THEN j ELSE 0 - 1,
                         end |-> m.end, caps |-> m.caps])],
                   Found),
         LAMBDA hs :
           IF hs = <<>> THEN <<>>
           ELSE LET m == Len(hs)
                    Resume(k) == IF hs[k].end > hs[k].start THEN hs[k].end
                                 ELSE hs[k].start + 1
                    Later(k) == {x \in (k + 1)..m : hs[x].start >= Resume(k)}
                IN With(AsSeq([k \in 1..(m + 1) |->
                                 IF Later(k) # {} THEN MinOf(Later(k)) ELSE m + 1]),
                        LAMBDA jump :
                          With(SortedSeq(Orbit(jump, {1}, m) \ {m + 1}), LAMBDA picked :
                            [k \in 1..Len(picked) |-> hs[picked[k]]])))

\* re.findall for a pattern without groups
FindAll(re, s, fl) ==
    With(FindIter(re, 0, s, fl), LAMBDA fs :
      [k \in 1..Len(fs) |-> Slice(s, fs[k].start, fs[k].end)])

\* the pieces of s between the matches fs
Between(s, fs) ==
    [k \in 1..(Len(fs) + 1) |->
       Slice(s, IF k = 1 THEN 1 ELSE fs[k - 1].end,
                IF k = Len(fs) + 1 THEN Len(s) + 1 ELSE fs[k].start)]

\* str.join
Join(sep, parts) ==
    Concat([k \in 1..Len(parts) |-> IF k = 1 THEN parts[k] ELSE sep \o parts[k]])

\* re.split(re, s) and re.sub(re, repl, s); no pattern they are used with
\* matches the empty string
ReSplit(re, s) == Between(s, FindIter(re, 0, s, NoFlags))

Sub(re, repl, s) == Join(repl, ReSplit(re, s))

(***************************************************************************)
(* str methods                                                             *)
(***************************************************************************)
\* str.strip(): white space removed at both ends
Strip(s) ==
    LET ink == {i \in 1..Len(s) : s[i] \notin SpaceSet}
    IN IF ink = {} THEN <<>>
       ELSE SubSeq(s, MinOf(ink), CHOOSE x \in ink : \A y \in ink : y <= x)

\* str.split(sep) for a one-character separator
SplitOn(s, sep) ==
    LET at == SortedSeq({i \in 1..Len(s) : s[i] = sep})
    IN [k \in 1..(Len(at) + 1) |->
          SubSeq(s, IF k = 1 THEN 1 ELSE at[k - 1] + 1,
                    IF k = Len(at) + 1 THEN Len(s) ELSE at[k] - 1)]

\* str.split(): split on runs of white space, no empty strings
SplitWords(s) ==
    LET IsInk(i) == i >= 1 /\ i <= Len(s) /\ s[i] \notin SpaceSet
        from == SortedSeq({i \in 1..Len(s) : IsInk(i) /\ ~IsInk(i - 1)})
        to == SortedSeq({i \in 1..Len(s) : IsInk(i) /\ ~IsInk(i + 1)})
    IN [k \in 1..Len(from) |-> SubSeq(s, from[k], to[k])]

\* str.replace(old, "") for a one-character old
RemoveCh(s, c) == SelectSeq(s, LAMBDA x : x # c)

Lower(s) == [i \in 1..Len(s) |-> LowerCh(s[i])]

Upper(s) == [i \in 1..Len(s) |-> UpperCh(s[i])]

\* sub in s
Contains(s, sub) ==
    \E i \in 1..(Len(s) - Len(sub) + 1) : SubSeq(s, i, i + Len(sub) - 1) = sub

(***************************************************************************)
(* Decimal (decimal.Decimal): mantissa m and number of decimals e, the     *)
(* value m / 10^e; some = FALSE is Python's None.                          *)
(***************************************************************************)
NoneDec == [some |-> FALSE, m |-> 0, e |-> 0]

Dec(m, e) == [some |-> TRUE, m |-> m, e |-> e]

RECURSIVE Pow10(_)
Pow10(n) == IF n = 0 THEN 1 ELSE 10 * Pow10(n - 1)

DigitVal(c) == CHOOSE v \in 0..9 : <<"0", "1", "2", "3", "4", "5", "6", "7", "8", "9">>[v + 1] = c

RECURSIVE DigitsToInt(_)
DigitsToInt(s) ==
    IF s = <<>> THEN 0 ELSE 10 * DigitsToInt(SubSeq(s, 1, Len(s) - 1)) + DigitVal(s[Len(s)])

\* the strings Decimal() accepts among strings of digits and dots:
\* digits, digits "." digits*, "." digits
DecimalOk(s) ==
    /\ \A i \in 1..Len(s) : s[i] \in Digits \cup {"."}
    /\ \E i \in 1..Len(s) : s[i] \in Digits
    /\ Cardinality({i \in 1..Len(s) : s[i] = "."}) <= 1

\* Decimal(s) for a string DecimalOk accepts
Decimal(s) ==
    LET dots == {i \in 1..Len(s) : s[i] = "."}
        frac == IF dots = {} THEN 0 ELSE Len(s) - (CHOOSE i \in dots : TRUE)
    IN Dec(DigitsToInt(RemoveCh(s, ".")), frac)

\* a product that loses the decimal places of its factors
DecMulUnscaled(a, b) == [some |-> TRUE, m |-> a.m * b.m, e |-> 0]

\* a * b: exact, the decimals add up
DecMul(a, b) == Dec(a.m * b.m, a.e + b.e)

\* a < b, a == b, by value
DecLess(a, b) == a.m * Pow10(b.e) < b.m * Pow10(a.e)

DecEq(a, b) == a.some = b.some /\ a.m * Pow10(b.e) = b.m * Pow10(a.e)

\* x is not None and x > 0
DecPositive(x) == x.some /\ x.m > 0

\* bool(x): neither None nor zero
DecTruthy(x) == x.some /\ x.m # 0

(***************************************************************************)
(* DataExtractor: constants and patterns                                   *)
(***************************************************************************)
common_units ==
    { <<"m", "2">>, <<"m", "3">>, <<"k", "g">>, <<"m", "l">>, <<"l">>, <<"u", "n">>,
      <<"h", "m">>, <<"k", "m">>, <<"m">>, <<"p", "i", "e", "z", "a">>,
      <<"j", "u", "e", "g", "o">>, <<"g", "l", "o", "b", "a", "l">>,
      <<"m", "e", "t", "r", "o", "s">>,
      <<"k", "i", "l", "o", "g", "r", "a", "m", "o", "s">>,
      <<"l", "i", "t", "r", "o", "s">>,
      <<"u", "n", "i", "d", "a", "d", "e", "s">>,
      <<"m", "e", "t", "r", "o", "s", " ", "c", "u", "a", "d", "r", "a", "d", "o", "s">>,
      <<"m", "e", "t", "r", "o", "s", " ", "c", "ú", "b", "i", "c", "o", "s">> }

\* \d+(?:\.\d+)?   and   \d+(?:\.\d+)*   and   \d+(?:\.\d{2})?
Number == Cat(<<Plus(DigitC), Opt(Cat(<<Lit("."), Plus(DigitC)>>))>>)

DottedCode == Cat(<<Plus(DigitC), Star(Cat(<<Lit("."), Plus(DigitC)>>))>>)

Money == Cat(<<Plus(DigitC), Opt(Cat(<<Lit("."), Rep(DigitC, 2, 2)>>))>>)

\* m2|m3|kg|ml|l|un|m
UnitAlt == Alt(<<Word(<<"m", "2">>), Word(<<"m", "3">>), Word(<<"k", "g">>),
                 Word(<<"m", "l">>), Lit("l"), Word(<<"u", "n">>), Lit("m")>>)

\* [A-Z]{2,3}\d{2,4}
WorkCode == Cat(<<Rep(Set(AsciiUpper), 2, 3), Rep(DigitC, 2, 4)>>)

\* [$\d,\.]+
PriceChars == Plus(Set(Digits \cup {"$", ",", "."}))

currency_patterns ==
    << \* \$?\d{1,3}(?:,\d{3})*\.?\d{0,2}
       Cat(<<Opt(Lit("$")), Rep(DigitC, 1, 3), Star(Cat(<<Lit(","), Rep(DigitC, 3, 3)>>)),
             Opt(Lit(".")), Rep(DigitC, 0, 2)>>),
       \* \d{1,3}(?:\.\d{3})*,\d{2}
       Cat(<<Rep(DigitC, 1, 3), Star(Cat(<<Lit("."), Rep(DigitC, 3, 3)>>)),
             Lit(","), Rep(DigitC, 2, 2)>>),
       \* \b\d+\.\d{2}\b
       Cat(<<WordB, Plus(DigitC), Lit("."), Rep(DigitC, 2, 2), WordB>>) >>

\* price.replace('$', '').replace(',', '')
CleanPrice(p) == RemoveCh(RemoveCh(p, "$"), ",")

(***************************************************************************)
(* DataExtractor: items                                                    *)
(***************************************************************************)
EmptyItem ==
    [code |-> <<>>, description |-> <<>>, unit |-> <<>>,
     quantity |-> NoneDec, unit_price |-> NoneDec, total_price |-> NoneDec]

\* _is_valid_item without the test of quantity and unit_price
is_valid_item_unchecked(item) == Strip(item.description) # <<>>

\* _is_valid_item
is_valid_item(item) ==
    LET has_description == Strip(item.description) # <<>>
        has_quantity == DecPositive(item.quantity)
        has_price == DecPositive(item.unit_price)
    IN has_description /\ (has_quantity \/ has_price)

(***************************************************************************)
(* DataExtractor: text cleaning and the built-in format detection          *)
(***************************************************************************)
\* _clean_text without the two substitutions of blanks: strip only
clean_text_strip(text) == Strip(text)

\* _clean_text
clean_text(text) ==
    With(Sub(Set(ControlSet), <<" ">>, text), LAMBDA t1 :
      With(Sub(Plus(SpaceC), <<" ">>, t1), LAMBDA t2 :
        With(Sub(Plus(Lit("\n")), <<"\n">>, t2), LAMBDA t3 : Strip(t3))))

\* _is_table_row
is_table_row(line) ==
    LET numbers == FindAll(Number, line, NoFlags)
    IN Len(numbers) >= 3 /\ Len(SplitWords(line)) >= 4

\* _is_list_item
is_list_item(line) ==
    LET has_code == IsMatch(MatchAt(Cat(<<Bol, Star(SpaceC), DottedCode>>), 0, line, 1, NoFlags))
        has_number == Found(Search(Cat(<<Number, Star(SpaceC), UnitAlt, WordB>>), 0, line, IgnoreCase))
        has_price == \E k \in 1..Len(currency_patterns) :
                        Found(Search(currency_patterns[k], 0, line, NoFlags))
    IN has_code /\ (has_number \/ has_price)

\* _detect_format without the test of the number of lines
extractor_detect_format_any_length(lines) ==
    LET table_lines == Cardinality({k \in 1..Len(lines) : is_table_row(lines[k])})
        list_lines == Cardinality({k \in 1..Len(lines) :
                                     ~is_table_row(lines[k]) /\ is_list_item(lines[k])})
    IN IF 10 * table_lines > 6 * Len(lines) THEN "table"
       ELSE IF 10 * list_lines > 4 * Len(lines) THEN "list"
       ELSE "mixed"

\* _detect_format; n * 0.6 and n * 0.4 compare as the exact products do for
\* every count below 3000
extractor_detect_format(lines) ==
    IF Len(lines) < 3 THEN "unknown"
    ELSE LET table_lines == Cardinality({k \in 1..Len(lines) : is_table_row(lines[k])})
             list_lines == Cardinality({k \in 1..Len(lines) :
                                          ~is_table_row(lines[k]) /\ is_list_item(lines[k])})
         IN IF 10 * table_lines > 6 * Len(lines) THEN "table"
            ELSE IF 10 * list_lines > 4 * Len(lines) THEN "list"
            ELSE "mixed"

(***************************************************************************)
(* DataExtractor: the table strategy                                       *)
(***************************************************************************)
\* _split_table_row
split_table_row(line) ==
    With(SelectSeq(ReSplit(Alt(<<Rep(SpaceC, 2, Inf), Lit("\t")>>), Strip(line)),
                   LAMBDA col : Strip(col) # <<>>),
         LAMBDA kept : [k \in 1..Len(kept) |-> Strip(kept[k])])

\* the quantity and the unit after the columns up to k have been read
RECURSIVE TableQtyUnit(_, _, _)
TableQtyUnit(columns, k, item) ==
    IF k > Len(columns) THEN item
    ELSE LET Quantity(col, qty_match) ==
                 IF Found(qty_match) /\ ~DecTruthy(item.quantity)
                 THEN [item EXCEPT !.quantity = Decimal(Group(col, qty_match, 1)),
                                   !.unit = Group(col, qty_match, 2)]
                 ELSE item
             Unit(col, i1, unit_match) ==
                 IF Found(unit_match) /\ i1.unit = <<>>
                 THEN [i1 EXCEPT !.unit = Group(col, unit_match, 1)]
                 ELSE i1
         IN TableQtyUnit(columns, k + 1,
              Unit(columns[k],
                   Quantity(columns[k],
                            Search(Cat(<<Grp(1, Number), Star(SpaceC), Grp(2, UnitAlt), WordB>>),
                                   2, columns[k], IgnoreCase)),
                   Search(Cat(<<WordB, Grp(1, UnitAlt), WordB>>), 1, columns[k], IgnoreCase)))

\* the prices of one column under one pattern; a price Decimal() rejects is skipped
ColumnPrices(col, pattern) ==
    With(SelectSeq(FindAll(pattern, col, NoFlags), LAMBDA price : DecimalOk(CleanPrice(price))),
         LAMBDA ok : [k \in 1..Len(ok) |-> Decimal(CleanPrice(ok[k]))])

RECURSIVE TablePrices(_, _, _)
TablePrices(columns, k, p) ==
    IF k > Len(columns) THEN <<>>
    ELSE IF p > Len(currency_patterns) THEN TablePrices(columns, k + 1, 1)
    ELSE ColumnPrices(columns[k], currency_patterns[p]) \o TablePrices(columns, k, p + 1)

\* sorted(prices)[0] and sorted(prices)[-1]; the sort is stable, so of equal
\* values the first taken is the smallest and the last taken the largest
MinPrice(prices) ==
    prices[CHOOSE i \in 1..Len(prices) :
             /\ \A j \in 1..Len(prices) : ~DecLess(prices[j], prices[i])
             /\ \A j \in 1..(i - 1) : DecLess(prices[i], prices[j])]

MaxPrice(prices) ==
    prices[CHOOSE i \in 1..Len(prices) :
             /\ \A j \in 1..Len(prices) : ~DecLess(prices[i], prices[j])
             /\ \A j \in (i + 1)..Len(prices) : DecLess(prices[j], prices[i])]

\* _parse_table_columns: <<item>>, or <<>> for None
parse_table_columns(columns) ==
    LET IsCode(col) == IsMatch(MatchAt(Cat(<<Bol, DottedCode, Eol>>), 0, col, 1, NoFlags))
        \* is_code[i]: column i of the first two is a code
        Coded(is_code) ==
            IF is_code[1]
            THEN [EmptyItem EXCEPT !.code = columns[1],
                                   !.description = IF 2 <= Len(columns) THEN columns[2]
                                                   ELSE <<>>]
            ELSE IF is_code[2]
            THEN [EmptyItem EXCEPT !.code = columns[2],
                                   !.description = IF 3 <= Len(columns) THEN columns[3]
                                                   ELSE <<>>]
            ELSE [EmptyItem EXCEPT !.description = columns[1]]
        Priced(item, prices) ==
            IF Len(prices) >= 2
            THEN [item EXCEPT !.unit_price = MinPrice(prices), !.total_price = MaxPrice(prices)]
            ELSE IF Len(prices) = 1
            THEN [item EXCEPT !.unit_price = prices[1],
                              !.total_price = IF DecTruthy(item.quantity)
                                              THEN DecMul(item.quantity, prices[1])
                                              ELSE item.total_price]
            ELSE item
        Kept(item) ==
            IF item.description # <<>> /\ (DecTruthy(item.quantity) \/ DecTruthy(item.unit_price))
            THEN <<item>> ELSE <<>>
    IN Kept(Priced(TableQtyUnit(columns, 1,
                                Coded(AsSeq([i \in 1..2 |->
                                               i <= Len(columns) /\ IsCode(columns[i])]))),
                   TablePrices(columns, 1, 1)))

\* _extract_from_table
RECURSIVE extract_from_table(_)
extract_from_table(lines) ==
    IF lines = <<>> THEN <<>>
    ELSE With(split_table_row(Head(lines)), LAMBDA columns :
           IF Len(columns) >= 4 THEN parse_table_columns(columns) ELSE <<>>)
         \o extract_from_table(Tail(lines))

(***************************************************************************)
(* DataExtractor: the list strategy                                        *)
(***************************************************************************)
list_patterns ==
    << \* ^(\d+(?:\.\d+)*)\s+(.+?)\s+(\d+(?:\.\d+)?)\s*(m2|m3|kg|ml|l|un|m)\s+([$\d,\.]+)
       [ng |-> 5,
        re |-> Cat(<<Bol, Grp(1, DottedCode), Plus(SpaceC), Grp(2, RepLazy(Dot, 1, Inf)),
                     Plus(SpaceC), Grp(3, Number), Star(SpaceC), Grp(4, UnitAlt),
                     Plus(SpaceC), Grp(5, PriceChars)>>)],
       \* ^(\d+)\s+(.+?)\s+(\d+(?:\.\d+)?)\s+([$\d,\.]+)
       [ng |-> 4,
        re |-> Cat(<<Bol, Grp(1, Plus(DigitC)), Plus(SpaceC), Grp(2, RepLazy(Dot, 1, Inf)),
                     Plus(SpaceC), Grp(3, Number), Plus(SpaceC), Grp(4, PriceChars)>>)],
       \* ^([A-Z]{2,3}\d{2,4})\s+(.+?)\s+(\d+(?:\.\d+)?)\s*(m2|m3|kg|ml|l|un|m)
       [ng |-> 4,
        re |-> Cat(<<Bol, Grp(1, WorkCode), Plus(SpaceC), Grp(2, RepLazy(Dot, 1, Inf)),
                     Plus(SpaceC), Grp(3, Number), Star(SpaceC), Grp(4, UnitAlt)>>)] >>

\* the item built from a match of pattern list_patterns[k]
ListItemOf(line, f, ng) ==
    LET price_str == CleanPrice(Group(line, f, 5))
    IN [code |-> Group(line, f, 1),
        description |-> Strip(Group(line, f, 2)),
        quantity |-> IF ng > 2 THEN Decimal(Group(line, f, 3)) ELSE NoneDec,
        unit |-> IF ng > 3 /\ Group(line, f, 4) \in common_units
                 THEN Group(line, f, 4) ELSE <<>>,
        unit_price |-> IF ng > 4 /\ DecimalOk(price_str) THEN Decimal(price_str) ELSE NoneDec,
        total_price |-> NoneDec]

RECURSIVE ParseListFrom(_, _)
ParseListFrom(line, k) ==
    IF k > Len(list_patterns) THEN <<>>
    ELSE With(Search(list_patterns[k].re, list_patterns[k].ng, line, IgnoreCase), LAMBDA f :
           IF Found(f) THEN <<ListItemOf(line, f, list_patterns[k].ng)>>
           ELSE ParseListFrom(line, k + 1))

\* _parse_list_item: <<item>>, or <<>> for None
parse_list_item(line) ==
    LET stripped == Strip(line)
    IN IF stripped = <<>> THEN <<>> ELSE ParseListFrom(stripped, 1)

\* _extract_from_list: items so far, and current (<<>> for None)
RECURSIVE ExtractListFrom(_, _, _)
ExtractListFrom(lines, items, current) ==
    IF lines = <<>> THEN items \o current
    ELSE With(parse_list_item(Head(lines)), LAMBDA new_item :
           IF new_item # <<>>
           THEN ExtractListFrom(Tail(lines), items \o current, new_item)
           ELSE IF current # <<>> /\ Len(Strip(Head(lines))) > 10
                   /\ Strip(Head(lines))[1] \notin Digits
           THEN ExtractListFrom(Tail(lines), items,
                  <<[current[1] EXCEPT !.description = @ \o <<" ">> \o Strip(Head(lines))]>>)
           ELSE ExtractListFrom(Tail(lines), items, current))

extract_from_list(lines) == ExtractListFrom(lines, <<>>, <<>>)

(***************************************************************************)
(* DataExtractor: the strategies of the mixed format                       *)
(***************************************************************************)
\* _extract_item_with_patterns: <<item>>, or <<>> for None
RECURSIVE FirstPrice(_, _)
FirstPrice(text, p) ==
    IF p > Len(currency_patterns) THEN NoneDec
    ELSE With(FindAll(currency_patterns[p], text, NoFlags), LAMBDA price_matches :
           IF price_matches # <<>> /\ DecimalOk(CleanPrice(price_matches[1]))
           THEN Decimal(CleanPrice(price_matches[1]))
           ELSE FirstPrice(text, p + 1))

extract_item_with_patterns(text) ==
    LET Item(code_match, qty_match, desc_match) ==
            [code |-> IF Found(code_match) THEN Group(text, code_match, 1) ELSE <<>>,
             description |-> IF Found(desc_match)
                             THEN Strip(Slice(text, desc_match.start, desc_match.end))
                             ELSE <<>>,
             unit |-> IF Found(qty_match) THEN Group(text, qty_match, 2) ELSE <<>>,
             quantity |-> IF Found(qty_match) THEN Decimal(Group(text, qty_match, 1))
                          ELSE NoneDec,
             unit_price |-> FirstPrice(text, 1),
             total_price |-> NoneDec]
        Kept(item) == IF is_valid_item(item) THEN <<item>> ELSE <<>>
    IN Kept(Item(Search(Cat(<<WordB, Grp(1, DottedCode), WordB>>), 1, text, NoFlags),
                 Search(Cat(<<WordB, Grp(1, Number), Star(SpaceC), Grp(2, UnitAlt), WordB>>),
                        2, text, IgnoreCase),
                 Search(Cat(<<Set(AsciiLower \cup AsciiUpper), Star(Dot)>>), 0, text, NoFlags)))

\* _is_new_item_line
is_new_item_line(line) ==
    \/ IsMatch(MatchAt(Cat(<<Bol, Star(SpaceC), DottedCode>>), 0, line, 1, NoFlags))
    \/ IsMatch(MatchAt(Cat(<<Bol, Star(SpaceC), WorkCode>>), 0, line, 1, NoFlags))

\* _parse_buffered_lines
parse_buffered_lines(lines) ==
    IF lines = <<>> THEN <<>>
    ELSE With(Join(<<" ">>, lines), LAMBDA full_text :
           With(parse_list_item(full_text), LAMBDA item :
             IF item # <<>> THEN item ELSE extract_item_with_patterns(full_text)))

\* _extract_with_line_breaks: items so far, and the buffer of lines
RECURSIVE LineBreaksFrom(_, _, _)
LineBreaksFrom(lines, items, buffer) ==
    IF lines = <<>> THEN items \o parse_buffered_lines(buffer)
    ELSE LET line == Strip(Head(lines))
         IN IF line = <<>> THEN LineBreaksFrom(Tail(lines), items, buffer)
            ELSE IF is_new_item_line(line) /\ buffer # <<>>
            THEN LineBreaksFrom(Tail(lines), items \o parse_buffered_lines(buffer), <<line>>)
            ELSE LineBreaksFrom(Tail(lines), items, Append(buffer, line))

extract_with_line_breaks(lines) == LineBreaksFrom(lines, <<>>, <<>>)

\* _extract_with_context: line i with lines[max(0, i-1):i+2]
RECURSIVE ContextFrom(_, _)
ContextFrom(lines, i) ==
    IF i > Len(lines) THEN <<>>
    ELSE IF Strip(lines[i]) = <<>> THEN ContextFrom(lines, i + 1)
    ELSE LET lo == IF i - 1 >= 1 THEN i - 1 ELSE 1
             hi == IF i + 1 <= Len(lines) THEN i + 1 ELSE Len(lines)
             context_text == Join(<<" ">>, SubSeq(lines, lo, hi))
         IN extract_item_with_patterns(context_text) \o ContextFrom(lines, i + 1)

extract_with_context(lines) == ContextFrom(lines, 1)

\* budget_patterns of _extract_with_patterns; the group numbers of the names
budget_patterns ==
    << \* (?P<code>\d+(?:\.\d+)*)\s+(?P<desc>.+?)\s+(?P<qty>\d+(?:\.\d+)?)\s*
       \* (?P<unit>m2|m3|kg|ml|l|un|m)\s+(?P<uprice>\d+(?:\.\d{2})?)\s+(?P<total>\d+(?:\.\d{2})?)
       [ng |-> 6, code |-> 1, desc |-> 2, qty |-> 3, unit |-> 4, uprice |-> 5, total |-> 6,
        price |-> 0,
        re |-> Cat(<<Grp(1, DottedCode), Plus(SpaceC), Grp(2, RepLazy(Dot, 1, Inf)),
                     Plus(SpaceC), Grp(3, Number), Star(SpaceC), Grp(4, UnitAlt),
                     Plus(SpaceC), Grp(5, Money), Plus(SpaceC), Grp(6, Money)>>)],
       \* (?P<code>[A-Z]{2,3}\d{2,4})\s+(?P<desc>.+?)\s+(?P<qty>\d+(?:\.\d+)?)\s+
       \* (?P<unit>m2|m3|kg|ml|l|un|m)
       [ng |-> 4, code |-> 1, desc |-> 2, qty |-> 3, unit |-> 4, uprice |-> 0, total |-> 0,
        price |-> 0,
        re |-> Cat(<<Grp(1, WorkCode), Plus(SpaceC), Grp(2, RepLazy(Dot, 1, Inf)),
                     Plus(SpaceC), Grp(3, Number), Plus(SpaceC), Grp(4, UnitAlt)>>)],
       \* (?P<desc>.+?)\s+(?P<qty>\d+(?:\.\d+)?)\s*(?P<unit>m2|m3|kg|ml|l|un|m)\s+
       \* (?P<price>\d+(?:\.\d{2})?)
       [ng |-> 4, code |-> 0, desc |-> 1, qty |-> 2, unit |-> 3, uprice |-> 0, total |-> 0,
        price |-> 4,
        re |-> Cat(<<Grp(1, RepLazy(Dot, 1, Inf)), Plus(SpaceC), Grp(2, Number),
                     Star(SpaceC), Grp(3, UnitAlt), Plus(SpaceC), Grp(4, Money)>>)] >>

\* groups.get(name, ''): the group of that name, '' when the pattern has none
Named(text, f, n) == IF n = 0 THEN <<>> ELSE Group(text, f, n)

\* the item _extract_with_patterns builds from one match of pattern bp
PatternItemOf(text, f, bp) ==
    LET qty == Named(text, f, bp.qty)
        uprice == Named(text, f, bp.uprice)
        total == Named(text, f, bp.total)
        price == Named(text, f, bp.price)
    IN [code |-> Named(text, f, bp.code),
        description |-> Strip(Named(text, f, bp.desc)),
        quantity |-> IF qty # <<>> THEN Decimal(qty) ELSE NoneDec,
        unit |-> Named(text, f, bp.unit),
        unit_price |-> IF uprice # <<>> /\ DecimalOk(uprice) THEN Decimal(uprice)
                       ELSE IF total = <<>> /\ price # <<>> /\ DecimalOk(price)
                       THEN Decimal(price)
                       ELSE NoneDec,
        total_price |-> IF total # <<>> /\ DecimalOk(total) THEN Decimal(total) ELSE NoneDec]

PatternItems(text, bp) ==
    With(FindIter(bp.re, bp.ng, text, IgnoreCaseMultiline), LAMBDA fs :
      SelectSeq([k \in 1..Len(fs) |-> PatternItemOf(text, fs[k], bp)], is_valid_item))

\* _extract_with_patterns
extract_with_patterns(lines) ==
    With(Join(<<"\n">>, lines), LAMBDA full_text :
      Concat([k \in 1..Len(budget_patterns) |-> PatternItems(full_text, budget_patterns[k])]))

\* _extract_from_mixed: the first strategy with the most items.  No strategy
\* raises on a list of strings, so the except branch keeps nothing out.
extract_from_mixed(lines) ==
    LET Longer(first, second) == IF Len(second) > Len(first) THEN second ELSE first
    IN With(extract_with_line_breaks(lines), LAMBDA a :
         With(Longer(a, extract_with_context(lines)), LAMBDA ab :
           Longer(ab, extract_with_patterns(lines))))

(***************************************************************************)
(* DataExtractor: the normalizer                                           *)
(***************************************************************************)
unit_mapping(unit) ==
    CASE unit = <<"m", "e", "t", "r", "o", "s", " ", "c", "u", "a", "d", "r", "a", "d", "o", "s">>
           -> <<"m", "2">>
      [] unit = <<"m", "e", "t", "r", "o", "s", " ", "c", "ú", "b", "i", "c", "o", "s">>
           -> <<"m", "3">>
      [] unit = <<"k", "i", "l", "o", "g", "r", "a", "m", "o", "s">> -> <<"k", "g">>
      [] unit = <<"l", "i", "t", "r", "o", "s">> -> <<"l">>
      [] unit = <<"u", "n", "i", "d", "a", "d", "e", "s">> -> <<"u", "n">>
      [] unit = <<"m", "e", "t", "r", "o", "s">> -> <<"m">>
      [] OTHER -> <<>>

RECURSIVE IntDigits(_)
IntDigits(n) ==
    IF n < 10 THEN <<<<"0", "1", "2", "3", "4", "5", "6", "7", "8", "9">>[n + 1]>>
    ELSE IntDigits(n \div 10) \o IntDigits(n % 10)

\* f"{n:03d}"
Format03d(n) ==
    LET d == IntDigits(n)
    IN IF Len(d) >= 3 THEN d ELSE [i \in 1..(3 - Len(d)) |-> "0"] \o d

\* _clean_item; len(cleaned) is the number of keys of the item
clean_item(item) ==
    LET Described(cleaned) ==
            [cleaned EXCEPT !.description = Strip(Sub(Plus(SpaceC), <<" ">>, @))]
        Mapped(cleaned, mapped) ==
            [cleaned EXCEPT !.unit = IF mapped # <<>> THEN mapped ELSE @]
        Totalled(cleaned) ==
            IF DecTruthy(cleaned.quantity) /\ DecTruthy(cleaned.unit_price)
               /\ ~DecTruthy(cleaned.total_price)
            THEN [cleaned EXCEPT !.total_price = DecMul(cleaned.quantity, cleaned.unit_price)]
            ELSE cleaned
        Coded(cleaned) ==
            IF cleaned.code = <<>>
            THEN [cleaned EXCEPT !.code = <<"A", "U", "T", "O", "_">>
                                            \o Format03d(Cardinality(DOMAIN cleaned) + 1)]
            ELSE cleaned
    IN Coded(Totalled(Mapped(Described(item), unit_mapping(Lower(item.unit)))))

\* description[:50]
KeyLen == 50

\* a key made of the whole description
item_key_whole(item) == item.code \o <<"_">> \o item.description

\* item_key: code, "_", the first 50 characters of the description
item_key(item) ==
    item.code \o <<"_">> \o SubSeq(item.description, 1,
                                   IF Len(item.description) < KeyLen
                                   THEN Len(item.description) ELSE KeyLen)

\* the second loop of _validate_and_clean_items: the first item of each key
RECURSIVE Unique(_, _)
Unique(items, seen) ==
    IF items = <<>> THEN <<>>
    ELSE LET k == item_key(Head(items))
         IN IF k \in seen THEN Unique(Tail(items), seen)
            ELSE <<Head(items)>> \o Unique(Tail(items), seen \cup {k})

\* _validate_and_clean_items with the duplicates removed before the items are cleaned
validate_and_clean_items_raw_keys(items) ==
    With(Unique(SelectSeq(items, is_valid_item), {}), LAMBDA unique_items :
      AsSeq([k \in 1..Len(unique_items) |-> clean_item(unique_items[k])]))

\* _validate_and_clean_items
validate_and_clean_items(items) ==
    With(SelectSeq(items, is_valid_item), LAMBDA valid :
      Unique(AsSeq([k \in 1..Len(valid) |-> clean_item(valid[k])]), {}))

(***************************************************************************)
(* DataExtractor.extract_budget_items                                      *)
(***************************************************************************)
\* an argument that is a str, and None
StrArg(s) == [isstr |-> TRUE, s |-> s]

NoneArg == [isstr |-> FALSE, s |-> <<>>]

\* the try block: exc tells that an exception was raised in it (re.sub on a
\* text that is no string); with the items, the locals lines and format_type
\* and the strategy that was called
TryExtract(text, format_type) ==
    IF ~text.isstr
    THEN [exc |-> TRUE, items |-> <<>>, lines |-> <<>>, format_type |-> format_type,
          strategy |-> "none"]
    ELSE LET Strategy(lines, fmt) ==
                 CASE fmt = "table" -> extract_from_table(lines)
                   [] fmt = "list" -> extract_from_list(lines)
                   [] fmt = "mixed" -> extract_from_mixed(lines)
                   [] OTHER -> extract_with_patterns(lines)
             Called(fmt) == IF fmt \in {"table", "list", "mixed"} THEN fmt ELSE "patterns"
         IN With(clean_text(text.s), LAMBDA cleaned_text :
              With(SplitOn(cleaned_text, "\n"), LAMBDA lines :
                With(IF format_type = "" THEN extractor_detect_format(lines) ELSE format_type,
                     LAMBDA fmt :
                       With(Strategy(lines, fmt), LAMBDA items :
                         [exc |-> FALSE, items |-> validate_and_clean_items(items),
                          lines |-> lines, format_type |-> fmt, strategy |-> Called(fmt)]))))

\* extract_budget_items without its except branch
extract_budget_items_raising(text, format_type) ==
    With(TryExtract(text, format_type), LAMBDA r :
      [raised |-> r.exc, items |-> r.items, lines |-> r.lines, format_type |-> r.format_type,
       strategy |-> r.strategy])

\* extract_budget_items: the list returned, and whether an exception leaves it
extract_budget_items(text, format_type) ==
    With(TryExtract(text, format_type), LAMBDA r :
      [raised |-> FALSE, items |-> IF r.exc THEN <<>> ELSE r.items, lines |-> r.lines,
       format_type |-> r.format_type, strategy |-> r.strategy])

(***************************************************************************)
(* FormatDetector: the known formats and the line predicates               *)
(***************************************************************************)
\* known_formats: key, name and indicators of each format, in the order of
\* the dictionary
known_formats ==
    << [key |-> "standard_table",
        name |-> <<"T", "a", "b", "l", "a", " ", "E", "s", "t", "á", "n", "d", "a", "r">>,
        indicators |->
          << Alt(<<Word(<<"I", "t", "e", "m">>), Word(<<"C", "ó", "d", "i", "g", "o">>), Word(<<"C", "o", "d", "e">>)>>),
             Alt(<<Word(<<"D", "e", "s", "c", "r", "i", "p", "c", "i", "ó", "n">>), Word(<<"D", "e", "s", "c", "r", "i", "p", "t", "i", "o", "n">>)>>),
             Alt(<<Word(<<"C", "a", "n", "t", "i", "d", "a", "d">>), Word(<<"Q", "u", "a", "n", "t", "i", "t", "y">>), Word(<<"Q", "t", "y">>)>>),
             Alt(<<Word(<<"U", "n", "i", "d", "a", "d">>), Word(<<"U", "n", "i", "t">>)>>),
             Alt(<<Word(<<"P", "r", "e", "c", "i", "o">>), Word(<<"P", "r", "i", "c", "e">>), Word(<<"C", "o", "s", "t">>)>>),
             Word(<<"T", "o", "t", "a", "l">>) >>],
       [key |-> "chapters_list",
        name |-> <<"L", "i", "s", "t", "a", " ", "p", "o", "r", " ", "C", "a", "p", "í", "t", "u", "l", "o", "s">>,
        indicators |->
          << Alt(<<Word(<<"C", "a", "p", "í", "t", "u", "l", "o">>), Word(<<"C", "h", "a", "p", "t", "e", "r">>), Word(<<"C", "A", "P">>)>>),
             \* \d+\.\d+\.\d+
             Cat(<<Plus(DigitC), Lit("."), Plus(DigitC), Lit("."), Plus(DigitC)>>),
             \* \b\d+\.\d+\b
             Cat(<<WordB, Plus(DigitC), Lit("."), Plus(DigitC), WordB>>),
             \* \b\d+\s*[.-]
             Cat(<<WordB, Plus(DigitC), Star(SpaceC), Set({".", "-"})>>) >>],
       [key |-> "unit_prices",
        name |-> <<"P", "r", "e", "c", "i", "o", "s", " ", "U", "n", "i", "t", "a", "r", "i", "o", "s">>,
        indicators |->
          << Alt(<<Word(<<"P", "r", "e", "c", "i", "o", " ", "U", "n", "i", "t", "a", "r", "i", "o">>), Word(<<"U", "n", "i", "t", " ", "P", "r", "i", "c", "e">>)>>),
             \* PU\s*=
             Cat(<<Word(<<"P", "U">>), Star(SpaceC), Lit("=")>>),
             \* \$\s*\d+\.\d{2}
             Cat(<<Lit("$"), Star(SpaceC), Plus(DigitC), Lit("."), Rep(DigitC, 2, 2)>>),
             \* \d+\.\d{2}\s*€
             Cat(<<Plus(DigitC), Lit("."), Rep(DigitC, 2, 2), Star(SpaceC), Lit("€")>>) >>],
       [key |-> "detailed_breakdown",
        name |-> <<"D", "e", "s", "g", "l", "o", "s", "e", " ", "D", "e", "t", "a", "l", "l", "a", "d", "o">>,
        indicators |->
          << Alt(<<Word(<<"M", "a", "t", "e", "r", "i", "a", "l", "e", "s">>), Word(<<"M", "a", "t", "e", "r", "i", "a", "l", "s">>)>>),
             Alt(<<Word(<<"M", "a", "n", "o", " ", "d", "e", " ", "O", "b", "r", "a">>), Word(<<"L", "a", "b", "o", "r">>)>>),
             Alt(<<Word(<<"E", "q", "u", "i", "p", "o">>), Word(<<"E", "q", "u", "i", "p", "m", "e", "n", "t">>)>>),
             Alt(<<Word(<<"I", "n", "d", "i", "r", "e", "c", "t", "o", "s">>), Word(<<"O", "v", "e", "r", "h", "e", "a", "d">>)>>) >>] >>

\* any(word in text for word in words)
ContainsAny(text, words) == \E w \in words : Contains(text, w)

\* _is_table_line
is_table_line(line) ==
    With(FindAll(Number, line, NoFlags), LAMBDA numbers :
      With(SplitWords(line), LAMBDA words : Len(numbers) >= 2 /\ Len(words) >= 4))

\* _is_list_item of the detector: re.match of one of its three patterns
detector_list_patterns ==
    << \* ^\s*\d+(?:\.\d+)*\s+
       Cat(<<Bol, Star(SpaceC), DottedCode, Plus(SpaceC)>>),
       \* ^\s*\d+\s*[.-]\s+
       Cat(<<Bol, Star(SpaceC), Plus(DigitC), Star(SpaceC), Set({".", "-"}), Plus(SpaceC)>>),
       \* ^\s*[A-Z]{2,3}\d{2,4}\s+
       Cat(<<Bol, Star(SpaceC), WorkCode, Plus(SpaceC)>>) >>

detector_is_list_item(line) ==
    \E k \in 1..Len(detector_list_patterns) :
        IsMatch(MatchAt(detector_list_patterns[k], 0, line, 1, NoFlags))

\* str.isupper(): some cased character, and no lower-case one
IsUpper(s) ==
    /\ \E i \in 1..Len(s) : s[i] \in UpperSet
    /\ \A i \in 1..Len(s) : s[i] \notin LowerSet

\* _is_section_header
is_section_header(line) ==
    LET stripped == Strip(line)
        is_short == Len(stripped) < 50
        is_uppercase == IsUpper(stripped)
        has_keywords == ContainsAny(stripped, {<<"C", "A", "P", "Í", "T", "U", "L", "O">>, <<"C", "H", "A", "P", "T", "E", "R">>, <<"S", "E", "C", "C", "I", "Ó", "N">>, <<"S", "E", "C", "T", "I", "O", "N">>})
    IN is_short /\ (is_uppercase \/ has_keywords)

(***************************************************************************)
(* FormatDetector: the analyses.  A float the code computes as a quotient  *)
(* is kept as the quotient itself, [num, den].                             *)
(***************************************************************************)
\* the number of lines of lines, blank ones apart, that satisfy Test
CountLines(lines, Test(_)) ==
    Cardinality({k \in 1..Len(lines) : Strip(lines[k]) # <<>> /\ Test(Strip(lines[k]))})

\* sum(len(line) for line in lines)
TotalLength(lines) ==
    Cardinality(UNION {{<<k, i>> : i \in 1..Len(lines[k])} : k \in 1..Len(lines)})

\* _analyze_structure; len(lines) * 0.3 and len(lines) * 0.4 are compared in tenths
analyze_structure(lines) ==
    LET IsHeader(line) ==
            ContainsAny(Upper(line), {<<"I", "T", "E", "M">>, <<"C", "Ó", "D", "I", "G", "O">>, <<"D", "E", "S", "C", "R", "I", "P", "C", "I", "Ó", "N">>, <<"C", "A", "N", "T", "I", "D", "A", "D">>, <<"P", "R", "E", "C", "I", "O">>})
        Analysis(table_lines, list_items) ==
            [total_lines |-> Len(lines),
             empty_lines |-> Cardinality({k \in 1..Len(lines) : Strip(lines[k]) = <<>>}),
             header_lines |-> CountLines(lines, IsHeader),
             table_lines |-> table_lines,
             list_items |-> list_items,
             section_headers |-> CountLines(lines, is_section_header),
             has_table_structure |-> 10 * table_lines > 3 * Len(lines),
             has_list_structure |-> 10 * list_items > 4 * Len(lines),
             average_line_length |-> [num |-> TotalLength(lines), den |-> Len(lines)]]
    IN Analysis(CountLines(lines, is_table_line), CountLines(lines, detector_is_list_item))

\* len(re.findall(re, text))
CountAll(re, text, fl) == Len(FindIter(re, 0, text, fl))

\* \d+\.\d{2}   \d,\d{3}   CAPÍTULO|CHAPTER   [$€]   \d+\.\d+
DecimalNumber == Cat(<<Plus(DigitC), Lit("."), Rep(DigitC, 2, 2)>>)

ThousandSeparator == Cat(<<DigitC, Lit(","), Rep(DigitC, 3, 3)>>)

ChapterHeader == Alt(<<Word(<<"C", "A", "P", "Í", "T", "U", "L", "O">>), Word(<<"C", "H", "A", "P", "T", "E", "R">>)>>)

CurrencySymbol == Set({"$", "€"})

DottedNumber == Cat(<<Plus(DigitC), Lit("."), Plus(DigitC)>>)

\* m2|m3|kg|ml|l|un
ShortUnitAlt == Alt(<<Word(<<"m", "2">>), Word(<<"m", "3">>), Word(<<"k", "g">>),
                      Word(<<"m", "l">>), Lit("l"), Word(<<"u", "n">>)>>)

\* _analyze_content
analyze_content(text) ==
    [has_currency_symbols |-> \E i \in 1..Len(text) : text[i] \in {"$", "€"},
     has_decimal_numbers |-> Found(Search(DecimalNumber, 0, text, NoFlags)),
     has_thousand_separators |-> Found(Search(ThousandSeparator, 0, text, NoFlags)),
     has_units |-> ContainsAny(Lower(text), {<<"m", "2">>, <<"m", "3">>, <<"k", "g">>,
                                             <<"m", "l">>, <<"l">>, <<"u", "n">>}),
     has_chapter_headers |-> Found(Search(ChapterHeader, 0, text, NoFlags)),
     has_totals |-> ContainsAny(text, {<<"T", "O", "T", "A", "L">>, <<"S", "U", "B", "T", "O", "T", "A", "L">>, <<"S", "U", "B", "-", "T", "O", "T", "A", "L">>}),
     has_breakdown |-> ContainsAny(text, {<<"M", "A", "T", "E", "R", "I", "A", "L", "E", "S">>, <<"M", "A", "N", "O", " ", "D", "E", " ", "O", "B", "R", "A">>, <<"E", "Q", "U", "I", "P", "O">>}),
     currency_count |-> CountAll(CurrencySymbol, text, NoFlags),
     number_count |-> CountAll(DottedNumber, text, NoFlags),
     unit_count |-> CountAll(Cat(<<WordB, Grp(1, ShortUnitAlt), WordB>>), text, IgnoreCase)]

\* the patterns _analyze_patterns searches a line for
\* \d+(?:\.\d+)+
CodePattern == Cat(<<Plus(DigitC), Plus(Cat(<<Lit("."), Plus(DigitC)>>))>>)

\* \$?\d+(?:,\d{3})*\.\d{2}   and   \d+(?:\.\d{3})*,\d{2}
PricePatterns ==
    << Cat(<<Opt(Lit("$")), Plus(DigitC), Star(Cat(<<Lit(","), Rep(DigitC, 3, 3)>>)),
             Lit("."), Rep(DigitC, 2, 2)>>),
       Cat(<<Plus(DigitC), Star(Cat(<<Lit("."), Rep(DigitC, 3, 3)>>)),
             Lit(","), Rep(DigitC, 2, 2)>>) >>

\* \d+(?:\.\d+)?\s*(?:m2|m3|kg|ml|l|un|m)
QuantityPattern == Cat(<<Number, Star(SpaceC), UnitAlt>>)

\* \s{3,}
WideGap == Rep(SpaceC, 3, Inf)

\* _analyze_patterns
analyze_patterns(lines) ==
    LET HasCode(line) == Found(Search(CodePattern, 0, line, NoFlags))
        HasPrice(line) ==
            \E k \in 1..Len(PricePatterns) : Found(Search(PricePatterns[k], 0, line, NoFlags))
        HasQuantity(line) == Found(Search(QuantityPattern, 0, line, IgnoreCase))
        HasTab(line) == "\t" \in {line[i] : i \in 1..Len(line)}
                        \/ Found(Search(WideGap, 0, line, NoFlags))
        IsLine(line) == TRUE
        Analysis(code_patterns, price_patterns, quantity_patterns, total_lines) ==
            [repeated_patterns |->
                 IF total_lines > 0
                 THEN [num |-> code_patterns + price_patterns + quantity_patterns,
                       den |-> 3 * total_lines]
                 ELSE [num |-> 0, den |-> 1],
             code_patterns |-> code_patterns,
             price_patterns |-> price_patterns,
             quantity_patterns |-> quantity_patterns,
             consistent_spacing |-> 0,
             tab_separated |-> CountLines(lines, HasTab)]
    IN Analysis(CountLines(lines, HasCode), CountLines(lines, HasPrice),
                CountLines(lines, HasQuantity), CountLines(lines, IsLine))

(***************************************************************************)
(* FormatDetector: the score of a format.  The indicators are searched in  *)
(* str(structure) + str(content), the text Python prints the two           *)
(* dictionaries as.                                                        *)
(***************************************************************************)
\* str(n) of an integer n >= 0, str(b) of a boolean
IntStr(n) == IntDigits(n)

BoolStr(b) == IF b THEN <<"T", "r", "u", "e">> ELSE <<"F", "a", "l", "s", "e">>

\* the digits after the point of rem / den (rem < den), at most k of them
RECURSIVE Fraction(_, _, _)
Fraction(rem, den, k) ==
    IF rem = 0 \/ k = 0 THEN <<>>
    ELSE IntDigits((10 * rem) \div den) \o Fraction((10 * rem) % den, den, k - 1)

\* str(num / den) of a float: exact where the division ends within 16 digits,
\* as it does for the line counts 1, 2, 4, 5, 8, ...
FloatStr(q) ==
    LET frac == Fraction(q.num % q.den, q.den, 16)
    IN IntStr(q.num \div q.den) \o <<".">> \o (IF frac = <<>> THEN <<"0">> ELSE frac)

\* str(d) of a dictionary given as the sequence of its keys and printed values
DictStr(entries) ==
    <<"{">> \o Join(<<",", " ">>, [k \in 1..Len(entries) |->
                      <<"'">> \o entries[k][1] \o <<"'", ":", " ">> \o entries[k][2]])
    \o <<"}">>

StructureStr(sa) ==
    DictStr(<< <<<<"t", "o", "t", "a", "l", "_", "l", "i", "n", "e", "s">>, IntStr(sa.total_lines)>>,
               <<<<"e", "m", "p", "t", "y", "_", "l", "i", "n", "e", "s">>, IntStr(sa.empty_lines)>>,
               <<<<"h", "e", "a", "d", "e", "r", "_", "l", "i", "n", "e", "s">>, IntStr(sa.header_lines)>>,
               <<<<"t", "a", "b", "l", "e", "_", "l", "i", "n", "e", "s">>, IntStr(sa.table_lines)>>,
               <<<<"l", "i", "s", "t", "_", "i", "t", "e", "m", "s">>, IntStr(sa.list_items)>>,
               <<<<"s", "e", "c", "t", "i", "o", "n", "_", "h", "e", "a", "d", "e", "r", "s">>, IntStr(sa.section_headers)>>,
               <<<<"h", "a", "s", "_", "t", "a", "b", "l", "e", "_", "s", "t", "r", "u", "c", "t", "u", "r", "e">>, BoolStr(sa.has_table_structure)>>,
               <<<<"h", "a", "s", "_", "l", "i", "s", "t", "_", "s", "t", "r", "u", "c", "t", "u", "r", "e">>, BoolStr(sa.has_list_structure)>>,
               <<<<"a", "v", "e", "r", "a", "g", "e", "_", "l", "i", "n", "e", "_", "l", "e", "n", "g", "t", "h">>, FloatStr(sa.average_line_length)>> >>)

ContentStr(ca) ==
    DictStr(<< <<<<"h", "a", "s", "_", "c", "u", "r", "r", "e", "n", "c", "y", "_", "s", "y", "m", "b", "o", "l", "s">>, BoolStr(ca.has_currency_symbols)>>,
               <<<<"h", "a", "s", "_", "d", "e", "c", "i", "m", "a", "l", "_", "n", "u", "m", "b", "e", "r", "s">>, BoolStr(ca.has_decimal_numbers)>>,
               <<<<"h", "a", "s", "_", "t", "h", "o", "u", "s", "a", "n", "d", "_", "s", "e", "p", "a", "r", "a", "t", "o", "r", "s">>, BoolStr(ca.has_thousand_separators)>>,
               <<<<"h", "a", "s", "_", "u", "n", "i", "t", "s">>, BoolStr(ca.has_units)>>,
               <<<<"h", "a", "s", "_", "c", "h", "a", "p", "t", "e", "r", "_", "h", "e", "a", "d", "e", "r", "s">>, BoolStr(ca.has_chapter_headers)>>,
               <<<<"h", "a", "s", "_", "t", "o", "t", "a", "l", "s">>, BoolStr(ca.has_totals)>>,
               <<<<"h", "a", "s", "_", "b", "r", "e", "a", "k", "d", "o", "w", "n">>, BoolStr(ca.has_breakdown)>>,
               <<<<"c", "u", "r", "r", "e", "n", "c", "y", "_", "c", "o", "u", "n", "t">>, IntStr(ca.currency_count)>>,
               <<<<"n", "u", "m", "b", "e", "r", "_", "c", "o", "u", "n", "t">>, IntStr(ca.number_count)>>,
               <<<<"u", "n", "i", "t", "_", "c", "o", "u", "n", "t">>, IntStr(ca.unit_count)>> >>)

\* the least of two numbers
Min(a, b) == IF a <= b THEN a ELSE b

\* dict.get(key) used as a condition: a missing key gives None, which is false
GetFlag(dict, key) == IF key \in DOMAIN dict THEN dict[key] ELSE FALSE

\* the number of indicators found, in sixtieths, neither divided by the
\* number of indicators nor limited to 1.0
calculate_format_score_count(format_info, structure, content, patterns) ==
    With(StructureStr(structure) \o ContentStr(content), LAMBDA searched :
         60 * Cardinality({k \in 1..Len(format_info.indicators) :
                             Found(Search(format_info.indicators[k], 0, searched, IgnoreCase))}))

\* _calculate_format_score, in sixtieths: an indicator found counts 1.0, the
\* count is divided by the number of indicators (6 or 4), the bonuses are 0.3
\* and 0.2, and the score is at most 1.0
calculate_format_score(format_info, structure, content, patterns) ==
    LET Bonus(name, flag, word, bonus) ==
            IF GetFlag(content, flag) /\ Contains(name, word) THEN bonus ELSE 0
        Score(found, name) ==
            Min((60 * found) \div Len(format_info.indicators)
                  + Bonus(name, "has_table_structure", <<"t", "a", "b", "l", "e">>, 18)
                  + Bonus(name, "has_list_structure", <<"l", "i", "s", "t">>, 18)
                  + Bonus(name, "has_breakdown", <<"d", "e", "t", "a", "l", "l", "a", "d", "o">>, 12),
                60)
    IN With(StructureStr(structure) \o ContentStr(content), LAMBDA searched :
         Score(Cardinality({k \in 1..Len(format_info.indicators) :
                              Found(Search(format_info.indicators[k], 0, searched, IgnoreCase))}),
               Lower(format_info.name)))

(***************************************************************************)
(* FormatDetector: the layout analysis of OCR data.  A word is a record    *)
(* [x, y, width]; ocr_data is None, a dictionary without the key 'words'   *)
(* (empty or not), or a dictionary with a list of words.                   *)
(***************************************************************************)
NoOcr == [given |-> FALSE, empty |-> TRUE, has_words |-> FALSE, words |-> <<>>]

OcrWords(words) == [given |-> TRUE, empty |-> FALSE, has_words |-> TRUE, words |-> words]

\* bool(ocr_data)
OcrTruthy(ocr_data) == ocr_data.given /\ ~ocr_data.empty

MaxOf(set) == CHOOSE x \in set : \A y \in set : y <= x

\* round(n / d) for integers n >= 0 and d > 0: to the nearest, a tie to the even one
RoundDiv(n, d) ==
    LET q == n \div d
        r == n % d
    IN IF 2 * r < d THEN q
       ELSE IF 2 * r > d THEN q + 1
       ELSE IF q % 2 = 0 THEN q ELSE q + 1

\* sorted(ws, key): the words of ws in the order of Less, equal ones in their order
SortedBy(ws, Less(_, _)) ==
    LET Before(j, k) == Less(ws[j], ws[k]) \/ (~Less(ws[k], ws[j]) /\ j < k)
        rank == [k \in 1..Len(ws) |-> Cardinality({j \in 1..Len(ws) : Before(j, k)}) + 1]
    IN [p \in 1..Len(ws) |-> ws[CHOOSE k \in 1..Len(ws) : rank[k] = p]]

\* the sum of f[k] over the indices k of f
RECURSIVE SumRange(_, _, _)
SumRange(f, a, b) ==
    IF a > b THEN 0
    ELSE IF a = b THEN f[a]
    ELSE SumRange(f, a, (a + b) \div 2) + SumRange(f, (a + b) \div 2 + 1, b)

Sum(f) == SumRange(f, 1, Len(f))

\* _detect_columns: more than three gaps wider than 50 between sorted x
detect_columns(x_coords) ==
    LET sorted == SortedBy(x_coords, LAMBDA a, b : a < b)
        gaps == {i \in 2..Len(sorted) : sorted[i] - sorted[i - 1] > 50}
    IN x_coords # <<>> /\ Cardinality(gaps) > 3

\* _detect_grid_structure; len(words) * 0.3 is compared in tenths
detect_grid_structure(words) ==
    LET y_positions == {RoundDiv(words[k].y, 10) : k \in 1..Len(words)}
        x_positions == {RoundDiv(words[k].x, 10) : k \in 1..Len(words)}
    IN /\ Len(words) >= 10
       /\ 10 * Cardinality(y_positions) < 3 * Len(words)
       /\ 10 * Cardinality(x_positions) < 3 * Len(words)

\* _calculate_average_spacing
calculate_average_spacing(words) ==
    LET sorted == SortedBy(words, LAMBDA a, b : a.y < b.y \/ (a.y = b.y /\ a.x < b.x))
        Abs(n) == IF n < 0 THEN 0 - n ELSE n
        same == SelectSeq([i \in 1..(Len(words) - 1) |-> i + 1],
                          LAMBDA i : Abs(sorted[i].y - sorted[i - 1].y) < 20)
        spacings == [k \in 1..Len(same) |->
                        sorted[same[k]].x - (sorted[same[k] - 1].x + sorted[same[k] - 1].width)]
    IN IF Len(words) < 2 \/ same = <<>> THEN [num |-> 0, den |-> 1]
       ELSE [num |-> Sum(spacings), den |-> Len(spacings)]

\* _analyze_alignment: the mean, over the lines of two words or more, of
\* max(0.0, 1.0 - spread / 1000), in thousandths
analyze_alignment(words) ==
    LET line_keys == {RoundDiv(words[k].y, 15) : k \in 1..Len(words)}
        XsOf(key) == {words[k].x : k \in {j \in 1..Len(words) : RoundDiv(words[j].y, 15) = key}}
        Many(key) == Cardinality({j \in 1..Len(words) : RoundDiv(words[j].y, 15) = key}) > 1
        keys == SortedSeq({key \in line_keys : Many(key)})
        consistencies == [k \in 1..Len(keys) |->
                            LET spread == MaxOf(XsOf(keys[k])) - MinOf(XsOf(keys[k]))
                            IN IF spread > 1000 THEN 0 ELSE 1000 - spread]
    IN IF Len(words) < 2 \/ keys = <<>> THEN [num |-> 0, den |-> 1]
       ELSE [num |-> Sum(consistencies), den |-> 1000 * Len(keys)]

\* _analyze_layout: exc tells that the division by max(y) - min(y) = 0 raised
\* ZeroDivisionError; empty tells that {} is returned
analyze_layout(ocr_data) ==
    LET words == ocr_data.words
        ys == {words[k].y : k \in 1..Len(words)}
    IN IF ~ocr_data.has_words \/ words = <<>>
       THEN [exc |-> FALSE, empty |-> TRUE]
       ELSE IF MaxOf(ys) = MinOf(ys) THEN [exc |-> TRUE, empty |-> TRUE]
       ELSE [exc |-> FALSE, empty |-> FALSE,
             has_aligned_columns |-> detect_columns([k \in 1..Len(words) |-> words[k].x]),
             has_grid_structure |-> detect_grid_structure(words),
             text_density |-> [num |-> Len(words), den |-> MaxOf(ys) - MinOf(ys)],
             average_word_spacing |-> calculate_average_spacing(words),
             alignment_consistency |-> analyze_alignment(words)]

(***************************************************************************)
(* FormatDetector: detect_format                                           *)
(***************************************************************************)
\* FormatDetector(): the instance attribute format_scores = {} (known_formats
\* is the same for every instance)
NewDetector == [format_scores |-> <<>>]

\* _get_recommendations: the branch that gives the list
get_recommendations(format_key) ==
    IF format_key \in {"standard_table", "chapters_list", "unit_prices", "detailed_breakdown"}
    THEN format_key ELSE "other"

\* min in place of max: the first of the least
BestFormatLeast(format_scores) ==
    LET least == MinOf({k \in 1..Len(format_scores) :
                          \A j \in 1..Len(format_scores) : format_scores[k] <= format_scores[j]})
    IN [key |-> known_formats[least].key, name |-> known_formats[least].name,
        score |-> format_scores[least]]

\* max(format_scores.items(), key=lambda x: x[1]): the first of the greatest
BestFormat(format_scores) ==
    LET best == MinOf({k \in 1..Len(format_scores) :
                         \A j \in 1..Len(format_scores) : format_scores[j] <= format_scores[k]})
    IN [key |-> known_formats[best].key, name |-> known_formats[best].name,
        score |-> format_scores[best]]

\* the dictionary returned from the except branch
UnknownFormat ==
    [detected_format |-> "unknown", format_name |-> <<"F", "o", "r", "m", "a", "t", "o", " ", "D", "e", "s", "c", "o", "n", "o", "c", "i", "d", "o">>,
     confidence |-> 0, error |-> TRUE, all_scores |-> <<>>, details |-> <<>>]

\* detect_format(self, text, ocr_data): the instance after the call and the
\* dictionary returned; confidence and all_scores are in sixtieths, and
\* all_scores lists the scores in the order of known_formats
detect_format(self, text, ocr_data) ==
    IF ~text.isstr THEN [self |-> self, result |-> UnknownFormat]
    ELSE LET Result(structure_analysis, content_analysis, pattern_analysis, format_scores,
                    best_format, layout_analysis) ==
                 IF layout_analysis.exc THEN UnknownFormat
                 ELSE [detected_format |-> best_format.key,
                       format_name |-> best_format.name,
                       confidence |-> best_format.score,
                       error |-> FALSE,
                       all_scores |-> format_scores,
                       details |-> <<[structure_analysis |-> structure_analysis,
                                      content_analysis |-> content_analysis,
                                      pattern_analysis |-> pattern_analysis,
                                      layout_analysis |-> layout_analysis,
                                      recommendations |->
                                          get_recommendations(best_format.key)]>>]
             Scored(structure_analysis, content_analysis, pattern_analysis) ==
                 With(AsSeq([k \in 1..Len(known_formats) |->
                               calculate_format_score(known_formats[k], structure_analysis,
                                                      content_analysis, pattern_analysis)]),
                      LAMBDA format_scores :
                        Result(structure_analysis, content_analysis, pattern_analysis,
                               format_scores, BestFormat(format_scores),
                               IF OcrTruthy(ocr_data) THEN analyze_layout(ocr_data)
                               ELSE [exc |-> FALSE, empty |-> TRUE]))
         IN With(Upper(text.s), LAMBDA upper_text :
              With(SplitOn(upper_text, "\n"), LAMBDA lines :
                With(analyze_structure(lines), LAMBDA structure_analysis :
                  With(analyze_content(upper_text), LAMBDA content_analysis :
                    With(analyze_patterns(lines), LAMBDA pattern_analysis :
                      [self |-> self,
                       result |-> Scored(structure_analysis, content_analysis,
                                         pattern_analysis)])))))

(***************************************************************************)
(* DataExtractor.extract_totals                                            *)
(***************************************************************************)
\* the keys of totals and the keywords of each, in the order of the elif chain
totals_keywords ==
    << [key |-> "subtotal", keywords |-> <<<<"S", "U", "B", "T", "O", "T", "A", "L">>, <<"S", "U", "B", "-", "T", "O", "T", "A", "L">>, <<"S", "U", "B", " ", "T", "O", "T", "A", "L">>>>],
       [key |-> "tax", keywords |-> <<<<"I", "V", "A">>, <<"T", "A", "X">>, <<"I", "M", "P", "U", "E", "S", "T", "O">>>>],
       [key |-> "total", keywords |-> <<<<"T", "O", "T", "A", "L">>, <<"T", "O", "T", "A", "L", " ", "G", "E", "N", "E", "R", "A", "L">>>>],
       [key |-> "profit", keywords |-> <<<<"B", "E", "N", "E", "F", "I", "C", "I", "O">>, <<"G", "A", "N", "A", "N", "C", "I", "A">>, <<"P", "R", "O", "F", "I", "T">>>>] >>

\* totals as extract_totals starts with: Decimal('0.00') under every key
NoTotals == [subtotal |-> Dec(0, 2), tax |-> Dec(0, 2), total |-> Dec(0, 2), profit |-> Dec(0, 2)]

\* _extract_amount_from_line: the last match of the first pattern that has
\* one Decimal accepts; NoneDec for None
RECURSIVE AmountFrom(_, _)
AmountFrom(line, p) ==
    IF p > Len(currency_patterns) THEN NoneDec
    ELSE With(FindAll(currency_patterns[p], line, NoFlags), LAMBDA matches :
           IF matches # <<>> /\ DecimalOk(CleanPrice(matches[Len(matches)]))
           THEN Decimal(CleanPrice(matches[Len(matches)]))
           ELSE AmountFrom(line, p + 1))

extract_amount_from_line(line) == AmountFrom(line, 1)

\* the branches of the chain the line enters: any(keyword in line ...)
keyword_groups(line) ==
    {g \in 1..Len(totals_keywords) :
       \E k \in 1..Len(totals_keywords[g].keywords) :
          Contains(line, totals_keywords[g].keywords[k])}

\* a branch: amount = self._extract_amount_from_line(line); if amount: ...
totals_branch(totals, line, g) ==
    With(extract_amount_from_line(line), LAMBDA amount :
      IF DecTruthy(amount) THEN [totals EXCEPT ![totals_keywords[g].key] = amount]
      ELSE totals)

\* the body of the loop with four ifs in place of the if/elif chain
RECURSIVE TotalsIfs(_, _, _)
TotalsIfs(totals, line, g) ==
    IF g > Len(totals_keywords) THEN totals
    ELSE TotalsIfs(IF g \in keyword_groups(line) THEN totals_branch(totals, line, g)
                   ELSE totals,
                   line, g + 1)

totals_line_ifs(totals, line) == TotalsIfs(totals, line, 1)

\* the body of the loop of extract_totals: the first branch of the if/elif
\* chain whose keywords the line has
totals_line(totals, line) ==
    With(keyword_groups(line), LAMBDA groups :
      IF groups = {} THEN totals ELSE totals_branch(totals, line, MinOf(groups)))

\* totals after the first k lines
RECURSIVE TotalsAfter(_, _)
TotalsAfter(lines, k) ==
    IF k = 0 THEN NoTotals ELSE totals_line(TotalsAfter(lines, k - 1), lines[k])

\* extract_totals(text)
extract_totals(text) ==
    With(SplitOn(Upper(text), "\n"), LAMBDA lines : TotalsAfter(lines, Len(lines)))

(***************************************************************************)
(* PDFReader (pdf_processor/pdf_reader.py).  What lies at a path is no     *)
(* file, or a file with its size in bytes and its pages; of a page the     *)
(* reader uses the length of the text page.get_text() returns.             *)
(***************************************************************************)
\* self.max_file_size = 50 * 1024 * 1024
max_file_size == 50 * 1024 * 1024

NoFile == [exists |-> FALSE, size |-> 0, pages |-> <<>>]

PdfFile(size, pages) == [exists |-> TRUE, size |-> size, pages |-> pages]

\* a / b of two integers, b > 0: the float is kept as the quotient
Quotient(a, b) == [num |-> a, den |-> b]

\* q < n for a quotient q and an integer n
QuotientLess(q, n) == q.num < n * q.den

\* _detect_scanned_pdf with 100 included in the scanned averages
detect_scanned_pdf_inclusive(pages_text) ==
    IF pages_text = <<>> THEN TRUE
    ELSE With(Sum([k \in 1..Len(pages_text) |-> pages_text[k].text_length]),
              LAMBDA total_text_length :
                total_text_length <= 100 * Len(pages_text))

\* _detect_scanned_pdf
detect_scanned_pdf(pages_text) ==
    IF pages_text = <<>> THEN TRUE
    ELSE With(Sum([k \in 1..Len(pages_text) |-> pages_text[k].text_length]),
              LAMBDA total_text_length :
                With(Quotient(total_text_length, Len(pages_text)), LAMBDA avg_text_length :
                  QuotientLess(avg_text_length, 100)))

\* the dictionary read_pdf returns: the keys file_size, pages, total_pages
\* and is_scanned
NoPdfData == [file_size |-> 0, pages |-> <<>>, total_pages |-> 0, is_scanned |-> FALSE]

\* file_size > self.max_file_size with the ceiling itself refused
too_large_inclusive(file_size) == file_size >= max_file_size

\* file_size > self.max_file_size
too_large(file_size) == file_size > max_file_size

\* read_pdf(file_path): the exception raised ("none" for a return), whether
\* fitz.open was called, the number of pages loaded, and the dictionary
read_pdf(file) ==
    IF ~file.exists
    THEN [raised |-> "FileNotFoundError", opened |-> FALSE, pages_read |-> 0,
          data |-> NoPdfData]
    ELSE IF too_large(file.size)
    THEN [raised |-> "ValueError", opened |-> FALSE, pages_read |-> 0, data |-> NoPdfData]
    ELSE With(AsSeq([page_num \in 1..Len(file.pages) |->
                       [page_number |-> page_num, text_length |-> file.pages[page_num]]]),
              LAMBDA pages_text :
                [raised |-> "none", opened |-> TRUE, pages_read |-> Len(pages_text),
                 data |-> [file_size |-> file.size,
                           pages |-> pages_text,
                           total_pages |-> Len(pages_text),
                           is_scanned |-> detect_scanned_pdf(pages_text)]])

(***************************************************************************)
(* OCRProcessor (pdf_processor/ocr_processor.py).  What lies at an image   *)
(* path is an image: the step of process_image that raises on it ("none",  *)
(* "open" for Image.open, "ocr" for pytesseract, "ocr_once" for a          *)
(* pytesseract that raises on the first call for the image only), the text *)
(* image_to_string returns and the boxes image_to_data returns, which are  *)
(* taken to be the same for the image and the preprocessed image; its mode *)
(* and size, and the step of _preprocess_image that raises on it.  Of the  *)
(* dictionary process_image returns the keys image_path, image_size, text, *)
(* confidence, word_count, words and tables_detected are kept.             *)
(***************************************************************************)
ImageAt(path, fault, text, boxes) ==
    [path |-> path, fault |-> fault, text |-> text, boxes |-> boxes,
     mode |-> "RGB", size |-> <<800, 600>>, prefault |-> "none"]

\* the image Image.open returns: its mode, its size, and the steps of
\* _preprocess_image applied to it
PilImage(mode, size) == [mode |-> mode, size |-> size, applied |-> <<>>]

\* the statements of _preprocess_image that assign image, in their order
preprocess_steps == <<"convert", "enhance", "filter", "threshold", "resize">>

\* whether the step is executed on the image: the two conditions
StepRuns(image, step) ==
    CASE step = "convert" -> image.mode # "L"
      [] step = "resize" -> image.size[1] < 1000 \/ image.size[2] < 1000
      [] OTHER -> TRUE

\* image after the assignment of the step
StepDone(image, step) ==
    CASE step = "convert" -> [image EXCEPT !.mode = "L", !.applied = Append(@, step)]
      [] step = "resize" ->
           [image EXCEPT !.size = <<(3 * image.size[1]) \div 2, (3 * image.size[2]) \div 2>>,
                         !.applied = Append(@, step)]
      [] OTHER -> [image EXCEPT !.applied = Append(@, step)]

\* _preprocess_image from step k on: a step that raises ends in the except
\* branch, which returns what the name image is bound to at that point
RECURSIVE PreprocessFrom(_, _, _)
PreprocessFrom(image, k, prefault) ==
    IF k > Len(preprocess_steps) THEN image
    ELSE IF ~StepRuns(image, preprocess_steps[k])
    THEN PreprocessFrom(image, k + 1, prefault)
    ELSE IF prefault = preprocess_steps[k] THEN image
    ELSE PreprocessFrom(StepDone(image, preprocess_steps[k]), k + 1, prefault)

\* _preprocess_image(image), prefault being the step that raises on it
preprocess_image(image, prefault) == PreprocessFrom(image, 1, prefault)

\* _detect_tables_in_ocr
detect_tables_in_ocr(words) ==
    LET YKey(word) == RoundDiv(word.y, 10) * 10
        RowWords(y_key) ==
            SortedBy(SelectSeq(words, LAMBDA word : YKey(word) = y_key),
                     LAMBDA a, b : a.x < b.x)
        Row(y_key) ==
            With(AsSeq(RowWords(y_key)), LAMBDA row_words :
              [y_position |-> y_key,
               words |-> row_words,
               text |-> Join(<<" ">>, [k \in 1..Len(row_words) |-> row_words[k].text])])
    IN IF Len(words) < 10 THEN <<>>
       ELSE With(SortedSeq({y_key \in {YKey(words[k]) : k \in 1..Len(words)} :
                              Len(SelectSeq(words, LAMBDA word : YKey(word) = y_key)) >= 3}),
                 LAMBDA keys :
                   IF Len(keys) >= 3 THEN AsSeq([k \in 1..Len(keys) |-> Row(keys[k])])
                   ELSE <<>>)

\* _process_ocr_data without the test of the confidence
process_ocr_data_any_confidence(boxes) ==
    With(SelectSeq(boxes, LAMBDA box : Strip(box.text) # <<>>), LAMBDA valid :
      With(AsSeq([k \in 1..Len(valid) |->
                    [text |-> Strip(valid[k].text), confidence |-> valid[k].conf,
                     x |-> valid[k].left, y |-> valid[k].top]]),
           LAMBDA words :
             [words |-> SortedBy(words, LAMBDA a, b : a.y < b.y \/ (a.y = b.y /\ a.x < b.x)),
              average_confidence |->
                  IF Len(valid) > 0
                  THEN Quotient(Sum([k \in 1..Len(valid) |-> valid[k].conf]), Len(valid))
                  ELSE Quotient(0, 1)]))

\* _process_ocr_data: the words and their average confidence
process_ocr_data(boxes) ==
    With(SelectSeq(boxes, LAMBDA box : box.conf > 0 /\ Strip(box.text) # <<>>), LAMBDA valid :
      With(AsSeq([k \in 1..Len(valid) |->
                    [text |-> Strip(valid[k].text), confidence |-> valid[k].conf,
                     x |-> valid[k].left, y |-> valid[k].top]]),
           LAMBDA words :
             [words |-> SortedBy(words, LAMBDA a, b : a.y < b.y \/ (a.y = b.y /\ a.x < b.x)),
              average_confidence |->
                  IF Len(valid) > 0
                  THEN Quotient(Sum([k \in 1..Len(valid) |-> valid[k].conf]), Len(valid))
                  ELSE Quotient(0, 1)]))

\* process_image(image_path, preprocess): whether an exception leaves it, its
\* message, the image handed to pytesseract, and the dictionary returned
process_image(image, preprocess) ==
    LET Opened == PilImage(image.mode, image.size)
        Recognized(ocr_image) ==
            IF image.fault \in {"ocr", "ocr_once"}
            THEN [raised |-> TRUE, error |-> <<"t", "e", "s", "s", "e", "r", "a", "c", "t", " ", "i", "s", " ", "n", "o", "t", " ", "i", "n", "s", "t", "a", "l", "l", "e", "d">>,
                  image |-> ocr_image, data |-> <<>>]
            ELSE With(process_ocr_data(image.boxes), LAMBDA processed_data :
                   [raised |-> FALSE, error |-> <<>>, image |-> ocr_image,
                    data |-> [image_path |-> image.path,
                              image_size |-> ocr_image.size,
                              text |-> image.text,
                              confidence |-> processed_data.average_confidence,
                              word_count |-> Len(processed_data.words),
                              words |-> processed_data.words,
                              tables_detected |-> detect_tables_in_ocr(processed_data.words)]])
    IN IF image.fault = "open"
       THEN [raised |-> TRUE, error |-> <<"c", "a", "n", "n", "o", "t", " ", "i", "d", "e", "n", "t", "i", "f", "y", " ", "i", "m", "a", "g", "e", " ", "f", "i", "l", "e">>,
             image |-> Opened, data |-> <<>>]
       ELSE Recognized(IF preprocess THEN preprocess_image(Opened, image.prefault) ELSE Opened)

\* the entry batch_process_images appends for a page
batch_entry(image, preprocess) ==
    With(process_image(image, preprocess), LAMBDA r :
      IF r.raised
      THEN [image_path |-> image.path, error |-> r.error, text |-> <<>>,
            confidence |-> Quotient(0, 1)]
      ELSE r.data)

\* batch_process_images with the try around the loop: the first failure ends it
batch_process_images_aborting(image_paths, preprocess) ==
    With(AsSeq([k \in 1..Len(image_paths) |-> batch_entry(image_paths[k], preprocess)]),
         LAMBDA results :
           With({k \in 1..Len(results) : "error" \in DOMAIN results[k]}, LAMBDA failed :
             IF failed = {} THEN results ELSE SubSeq(results, 1, MinOf(failed))))

\* batch_process_images
batch_process_images(image_paths, preprocess) ==
    AsSeq([k \in 1..Len(image_paths) |-> batch_entry(image_paths[k], preprocess)])

(***************************************************************************)
(* The calls made on the objects: the arguments they are made with         *)
(***************************************************************************)
\* the longest list of candidates handed to the normalizer
MaxItems == 2

\* the number of FormatDetector instances
NumDetectors == 2

TableLine == <<"0", "1", ".", "0", "1", ".", "0", "1", " ", " ", "D", "e", "m", "o", "l", "i", "c", "i", "ó", "n", " ", "d", "e", " ", "c", "o", "n", "c", "r", "e", "t", "o", " ", " ", "1", "0", ".", "0", "0", " ", "m", "3", " ", " ", "1", "5", "0", ".", "0", "0", " ", " ", "1", "5", "0", "0", ".", "0", "0">>

ListLine == <<"0", "1", ".", "0", "2", ".", "0", "1", " ", "E", "x", "c", "a", "v", "a", "c", "i", "ó", "n", " ", "m", "a", "n", "u", "a", "l", " ", "2", "0", " ", "m", "3", " ", "$", "8", "0", ".", "0", "0">>

NoPriceLine == <<"A", "B", "1", "2", "3", " ", "M", "u", "r", "o", " ", "5", " ", "m", "2">>

NoQuantityLine == <<"A", "B", "1", "2", "3", " ", "M", "u", "r", "o", " ", "0", " ", "m", "2">>

ZeroQuantityLine == <<"0", "1", " ", "D", "e", "s", "c", " ", "0", " ", "m", "2", " ", "$", "5", ".", "0", "0">>

NoCodeLine == <<"0", "1", " ", "D", "e", "s", "c", " ", "2", " ", "m", "2", " ", "5", " ", "0">>

RepeatedLine == <<"0", "2", ".", "0", "1", ".", "0", "1", " ", "M", "u", "r", "o", " ", "5", " ", "m", "2", " ", "1", "0", ".", "0", "0", " ", "5", "0", ".", "0", "0", " ", "0", "2", ".", "0", "1", ".", "0", "1", " ", "M", "u", "r", "o", " ", "5", " ", "m", "2", " ", "1", "0", ".", "0", "0", " ", "5", "0", ".", "0", "0">>

GarbledLine == <<"@", "@", " ", "#", "#", "#">>

HeaderLine == <<"I", "t", "e", "m", " ", "D", "e", "s", "c", "r", "i", "p", "c", "i", "ó", "n", " ", "C", "a", "n", "t", "i", "d", "a", "d", " ", "U", "n", "i", "d", "a", "d", " ", "P", "r", "e", "c", "i", "o", " ", "T", "o", "t", "a", "l">>

\* three rows, the columns a tab apart
TabbedText == <<"1", "\t", "A", "\t", "2", " ", "m", "2", "\t", "$", "3", ".", "0", "0", "\n", "1", "\t", "A", "\t", "2", " ", "m", "2", "\t", "$", "3", ".", "0", "0", "\n", "1", "\t", "A", "\t", "2", " ", "m", "2", "\t", "$", "3", ".", "0", "0">>

\* the texts extract_budget_items is called with
Texts ==
    {StrArg(TableLine), StrArg(ListLine), StrArg(NoPriceLine), StrArg(NoQuantityLine),
     StrArg(ZeroQuantityLine), StrArg(NoCodeLine), StrArg(RepeatedLine),
     StrArg(GarbledLine), StrArg(TabbedText), StrArg(<<>>), NoneArg}

\* the format hints: "" is the default None
Hints == {"", "table", "list", "mixed", "unknown", "chapters_list"}

\* the texts detect_format is called with
BreakdownLine == <<"M", "a", "t", "e", "r", "i", "a", "l", "e", "s", " ", "y", " ", "e", "q", "u", "i", "p", "o">>

DetectorTexts == {StrArg(ListLine), StrArg(HeaderLine), StrArg(BreakdownLine), NoneArg}

\* the ocr_data detect_format is called with: none, one word, two words on
\* two rows
OcrData ==
    {NoOcr,
     OcrWords(<<[x |-> 0, y |-> 0, width |-> 10]>>),
     OcrWords(<<[x |-> 0, y |-> 0, width |-> 10], [x |-> 5, y |-> 9, width |-> 10]>>)}

LongDescription(last) == AsSeq([i \in 1..50 |-> "a"]) \o <<last>>

\* the candidates the parsers hand to the normalizer
Candidates ==
    {[code |-> <<"0", "1">>, description |-> <<"M", "u", "r", "o", " ", " ", "d", "e", " ", "l", "a", "d", "r", "i", "l", "l", "o", " ">>, quantity |-> Dec(2, 0),
      unit |-> <<"M", "e", "t", "r", "o", "s", " ", "C", "u", "a", "d", "r", "a", "d", "o", "s">>, unit_price |-> Dec(550, 2), total_price |-> NoneDec],
     [code |-> <<"0", "1">>, description |-> <<"M", "u", "r", "o", " ", "d", "e", " ", "l", "a", "d", "r", "i", "l", "l", "o">>, quantity |-> Dec(7, 0),
      unit |-> <<"m", "2">>, unit_price |-> NoneDec, total_price |-> NoneDec],
     [code |-> <<"0", "1">>, description |-> <<"D", "e", "s", "c">>, quantity |-> Dec(0, 0),
      unit |-> <<"m", "2">>, unit_price |-> Dec(500, 2), total_price |-> NoneDec],
     [code |-> <<>>, description |-> LongDescription("x"), quantity |-> Dec(1, 0),
      unit |-> <<"u", "n">>, unit_price |-> Dec(4, 0), total_price |-> Dec(9, 0)],
     [code |-> <<>>, description |-> LongDescription("y"), quantity |-> Dec(2, 0),
      unit |-> <<"k", "g">>, unit_price |-> Dec(3, 0), total_price |-> Dec(0, 0)],
     [code |-> <<"0", "2">>, description |-> <<" ", " ">>, quantity |-> Dec(1, 0),
      unit |-> <<"m">>, unit_price |-> Dec(1, 0), total_price |-> NoneDec]}

\* the lists of at most MaxItems candidates
CandidateLists == UNION {[1..n -> Candidates] : n \in 0..MaxItems}

\* the lines of the texts handed to extract_totals, and their greatest number
MaxLines == 2

SubtotalLine == <<"S", "U", "B", "T", "O", "T", "A", "L", " ", ".", ".", ".", " ", "$", "1", "2", ",", "3", "4", "5", ".", "6", "7">>

TotalLine == <<"T", "O", "T", "A", "L", " ", ".", ".", ".", " ", "$", "1", "5", ",", "0", "0", "0", ".", "0", "0">>

ZeroTotalLine == <<"T", "o", "t", "a", "l", " ", "$", "0", ".", "0", "0">>

TotalWithTaxLine == <<"T", "o", "t", "a", "l", " ", "c", "o", "n", " ", "I", "V", "A", " ", "$", "5", ".", "0", "0">>

ProfitLine == <<"G", "a", "n", "a", "n", "c", "i", "a", " ", "$", "3", ".", "0", "0">>

TotalsLines == {SubtotalLine, TotalLine, ZeroTotalLine, TotalWithTaxLine, ProfitLine}

TotalsTexts ==
    {Join(<<"\n">>, ls) : ls \in UNION {[1..n -> TotalsLines] : n \in 0..MaxLines}}

\* the rows handed to _extract_from_table, the columns two spaces apart
CodedRow == <<"0", "1", " ", " ", "M", "u", "r", "o", " ", " ", "5", " ", "m", "2", " ", " ", "$", "1", "0", ".", "0", "0", " ", " ", "$", "5", "0", ".", "0", "0">>

TiedRow == <<"X", " ", " ", "M", "u", "r", "o", " ", " ", "Y", " ", " ", "$", "7", ".", "0", "0", " ", " ", "$", "7", ".", "0", "0">>

PlainRow == <<"A", "B", " ", " ", "M", "u", "r", "o", " ", " ", "m", " ", " ", "$", "1", "0", ".", "0", "0", " ", " ", "$", "5", "0", ".", "5", "0">>

ShortRow == <<"X", " ", " ", "$", "1", "0", ".", "0", "0", " ", " ", "$", "5", "0", ".", "0", "0">>

TableRows == {CodedRow, TiedRow, PlainRow, ShortRow}

\* the lines handed to _extract_from_list: an item, and lines of 11 and of 10
\* characters, a line that starts with a digit and a short line
ContinuationLine == <<"d", "e", " ", "l", "a", "d", "r", "i", "l", "l", "o">>

TenCharLine == <<"e", "n", " ", "b", "l", "o", "q", "u", "e", "s">>

DigitLine == <<"2", " ", "c", "a", "p", "a", "s", " ", "d", "e", " ", "p", "i", "n", "t", "u", "r", "a">>

ShortLine == <<"y", " ", "m", "á", "s">>

ListStrategyLines == {ListLine, ContinuationLine, TenCharLine, DigitLine, ShortLine}

ListLineLists == UNION {[1..n -> ListStrategyLines] : n \in 1..MaxLines}

\* what lies at the paths handed to read_pdf: the greatest number of pages,
\* the text lengths of a page and the sizes of a file
MaxPages == 2

PageLengths == {0, 40, 100, 160}

FileSizes == {max_file_size - 1, max_file_size, max_file_size + 1}

Files ==
    {NoFile} \cup {PdfFile(size, pages) :
                     size \in FileSizes,
                     pages \in UNION {[1..n -> PageLengths] : n \in 0..MaxPages}}

\* what lies at the paths handed to batch_process_images, and the greatest
\* number of paths
MaxImages == 3

Box(text, conf, left, top) == [text |-> text, conf |-> conf, left |-> left, top |-> top]

Images ==
    {ImageAt("page1.png", "none", <<"M", "u", "r", "o", " ", "5", " ", "m", "2">>,
             <<Box(<<"M", "u", "r", "o">>, 90, 10, 5), Box(<<" ">>, 95, 40, 5), Box(<<"5">>, 0 - 1, 60, 5),
               Box(<<"m", "2">>, 60, 80, 5)>>),
     ImageAt("missing.png", "open", <<>>, <<>>),
     ImageAt("page3.png", "ocr", <<>>, <<>>),
     ImageAt("page4.png", "ocr_once", <<"P", "i", "s", "o", " ", "2", " ", "m", "2">>, <<Box(<<"P", "i", "s", "o">>, 70, 10, 5)>>)}

ImageLists == UNION {[1..n -> Images] : n \in 0..MaxImages}

\* the images handed to process_image: the boxes of a page in rows and
\* columns, the rows dy apart and listed from the last to the first
MaxGridRows == 3

MaxGridCols == 4

GridBoxes(rows, cols, dy) ==
    AsSeq([k \in 1..(rows * cols) |->
             Box(<<"x">>, 80, 60 * ((k - 1) % cols), dy * (rows - 1 - ((k - 1) \div cols)))])

GridImages ==
    {ImageAt("grid.png", "none", <<"x">>, GridBoxes(rows, cols, dy)) :
       rows \in 1..MaxGridRows, cols \in 1..MaxGridCols, dy \in {4, 10}}

\* boxes with and without a confidence above 0, with and without a text
ConfidenceImages ==
    {ImageAt("words.png", "none", <<"M", "u", "r", "o", " ", "5", " ", "m", "2">>, boxes) :
       boxes \in {<<>>,
                  <<Box(<<"5">>, 0 - 1, 60, 5), Box(<<>>, 0, 0, 0)>>,
                  <<Box(<<"M", "u", "r", "o">>, 90, 10, 5), Box(<<"5">>, 0 - 1, 60, 5), Box(<<"m", "2">>, 60, 80, 5)>>,
                  <<Box(<<"M", "u", "r", "o">>, 90, 10, 5), Box(<<" ">>, 95, 40, 5), Box(<<"m", "2">>, 60, 80, 5)>>}}

\* images of either mode, small and large, and the step of the
\* preprocessing that raises on them
PreprocessImages ==
    {[ImageAt("scan.png", "none", <<"M", "u", "r", "o">>, <<Box(<<"M", "u", "r", "o">>, 90, 10, 5)>>)
        EXCEPT !.mode = mode, !.size = size, !.prefault = prefault] :
       mode \in {"RGB", "L"}, size \in {<<800, 600>>, <<1200, 1600>>},
       prefault \in {"none"} \cup {preprocess_steps[k] : k \in 1..Len(preprocess_steps)}}

PageImages == GridImages \cup ConfidenceImages \cup PreprocessImages

(***************************************************************************)
(* The upload endpoint (main.py, upload_pdf).  The request carries the     *)
(* name of the file, its size in bytes and the texts of its pages, and the *)
(* project; db is a sqlalchemy.orm.Session, of which the rows of the       *)
(* tables budgets and budget_items are kept.  Budget and BudgetItem are    *)
(* the mapped classes of models/models.py, imported at line 14, which      *)
(* db.add stores.  (Line 15 imports the schemas of the same names after    *)
(* them; with those the constructor of line 209 raises for want of the     *)
(* required fields, and no request stores anything.)                       *)
(***************************************************************************)
UploadFile(filename, size, pages) == [filename |-> filename, size |-> size, pages |-> pages]

\* the tables before any commit
NoRows == [budgets |-> <<>>, budget_items |-> <<>>]

\* file.filename.lower().endswith('.pdf')
endswith_pdf(filename) ==
    With(Lower(filename), LAMBDA name :
      Len(name) >= 4 /\ SubSeq(name, Len(name) - 3, Len(name)) = <<".", "p", "d", "f">>)

\* ocr_result['text'], which replaces the text of a scanned document
ocr_result_text == <<"C", "o", "n", "t", "e", "n", "i", "d", "o", " ", "e", "x", "t", "r", "a", "í", "d", "o", " ", "c", "o", "n", " ", "O", "C", "R">>

\* Budget(**budget.dict()) once db.commit() and db.refresh() have given it
\* the next id of the table
Budget(rows, project_id, filename) ==
    [id |-> Len(rows.budgets) + 1, project_id |-> project_id,
     name |-> <<"P", "r", "e", "s", "u", "p", "u", "e", "s", "t", "o", " ", "e", "x", "t", "r", "a", "í", "d", "o", " ", "-", " ">> \o filename]

\* Decimal(str(item_data.get(key, 0))) for a key the item has: str(None) is
\* 'None', of which Decimal raises InvalidOperation; the string of a Decimal
\* gives the Decimal back
DecimalOfStr(value) ==
    IF value.some THEN [raised |-> FALSE, value |-> value]
    ELSE [raised |-> TRUE, value |-> value]

\* BudgetItem(budget_id=db_budget.id, ...): whether a conversion raises, and
\* the row
BudgetItem(budget_id, item_data) ==
    With(DecimalOfStr(item_data.quantity), LAMBDA quantity :
      With(DecimalOfStr(item_data.unit_price), LAMBDA unit_price :
        With(DecimalOfStr(item_data.total_price), LAMBDA total_price :
          [raised |-> quantity.raised \/ unit_price.raised \/ total_price.raised,
           row |-> [budget_id |-> budget_id, code |-> item_data.code,
                    description |-> item_data.description, unit |-> item_data.unit,
                    quantity |-> quantity.value, unit_price |-> unit_price.value,
                    total_price |-> total_price.value]])))

\* db.add(...) of the objects followed by db.commit()
commit(rows, budgets, budget_items) ==
    [budgets |-> rows.budgets \o budgets, budget_items |-> rows.budget_items \o budget_items]

\* the pages of the documents uploaded: a page with an item that has its
\* prices, a page with an item that has none, and a page too short for a
\* document that is not scanned; the documents, one of them without pages
PricedPage == <<"M", "u", "r", "o", " ", "5", " ", "m", "2", " ", "1", "0", ".", "0", "0", " ", "o", "b", "r", "a", " ", "c", "i", "v", "i", "l", " ", "d", "e", " ", "l", "a", " ", "t", "o", "r", "r", "e", " ", "n", "o", "r", "t", "e", " ", "s", "e", "g", "u", "n", " ", "p", "l", "a", "n", "o", "s", " ", "y", " ", "e", "s", "p", "e", "c", "i", "f", "i", "c", "a", "c", "i", "o", "n", "e", "s", " ", "d", "e", "l", " ", "p", "r", "o", "y", "e", "c", "t", "o", " ", "e", "j", "e", "c", "u", "t", "i", "v", "o", " ", "v", "i", "g", "e", "n", "t", "e">>

UnpricedPage == <<"A", "B", "1", "2", "3", " ", "M", "u", "r", "o", " ", "5", " ", "m", "2", " ", "o", "b", "r", "a", " ", "c", "i", "v", "i", "l", " ", "d", "e", " ", "l", "a", " ", "t", "o", "r", "r", "e", " ", "n", "o", "r", "t", "e", " ", "s", "e", "g", "u", "n", " ", "p", "l", "a", "n", "o", "s", " ", "y", " ", "e", "s", "p", "e", "c", "i", "f", "i", "c", "a", "c", "i", "o", "n", "e", "s", " ", "d", "e", "l", " ", "p", "r", "o", "y", "e", "c", "t", "o", " ", "e", "j", "e", "c", "u", "t", "i", "v", "o", " ", "v", "i", "g", "e", "n", "t", "e">>

ShortPage == <<"M", "u", "r", "o", " ", "5", " ", "m", "2", " ", "1", "0", ".", "0", "0">>

UploadPages == {<<PricedPage>>, <<UnpricedPage>>, <<ShortPage>>, <<>>}

\* upload_pdf(file, project_id, db) on the tables rows: the status of the
\* response, the tables afterwards, the id of db_budget (0 before it is
\* made) and the local budget_items
upload_pdf(rows, file, project_id) ==
    LET Failed(stored, db_budget, budget_items) ==
            [status_code |-> 500, rows |-> stored, db_budget |-> db_budget,
             budget_items |-> budget_items]
        Items(stored, db_budget, budget_items) ==
            With(AsSeq([k \in 1..Len(budget_items) |-> BudgetItem(db_budget.id, budget_items[k])]),
                 LAMBDA created :
                   IF \E k \in 1..Len(created) : created[k].raised
                   THEN Failed(stored, db_budget.id, budget_items)
                   ELSE [status_code |-> 200,
                         rows |-> commit(stored, <<>>,
                                         AsSeq([k \in 1..Len(created) |-> created[k].row])),
                         db_budget |-> db_budget.id, budget_items |-> budget_items])
        Create(budget_items) ==
            With(Budget(rows, project_id, file.filename), LAMBDA db_budget :
              Items(commit(rows, <<db_budget>>, <<>>), db_budget, budget_items))
        Pipeline(extracted_text) ==
            With(detect_format(NewDetector, StrArg(extracted_text), NoOcr).result,
                 LAMBDA format_analysis :
                   Create(extract_budget_items(StrArg(extracted_text),
                                               format_analysis.detected_format).items))
    IN IF ~endswith_pdf(file.filename) THEN Failed(rows, 0, <<>>)
       ELSE With(read_pdf(PdfFile(file.size,
                                  AsSeq([k \in 1..Len(file.pages) |-> Len(file.pages[k])]))),
                 LAMBDA pdf :
                   IF pdf.raised # "none" THEN Failed(rows, 0, <<>>)
                   ELSE Pipeline(IF pdf.data.is_scanned THEN ocr_result_text
                                 ELSE Join(<<"\n">>, file.pages)))

\* the requests
UploadFiles ==
    {UploadFile(filename, size, pages) :
       filename \in {<<"P", "1", ".", "P", "D", "F">>, <<"p", ".", "t", "x", "t">>},
       size \in {1024, max_file_size + 1},
       pages \in UploadPages}

ProjectIds == {1, 2}

\* the greatest number of budgets stored
MaxBudgets == 2

(***************************************************************************)
(* The state: the call in progress, the FormatDetector instances, the      *)
(* first detect_format call made, and the rows of the database             *)
(***************************************************************************)
VARIABLES pc, op, text, format_type, items, instance, ocr_data, result, detectors, first,
          file, image_paths, preprocess, lines, project_id, db

vars == <<pc, op, text, format_type, items, instance, ocr_data, result, detectors, first,
          file, image_paths, preprocess, lines, project_id, db>>

\* the arguments of the calls on PDFReader, OCRProcessor and _extract_from_table
others == <<file, image_paths, preprocess, lines>>

NoCall == [set |-> FALSE, text |-> NoneArg, result |-> UnknownFormat]

Init ==
    /\ pc = "idle"
    /\ op = "none"
    /\ text = NoneArg
    /\ format_type = ""
    /\ items = <<>>
    /\ instance = 0
    /\ ocr_data = NoOcr
    /\ result = <<>>
    /\ detectors = [d \in 1..NumDetectors |-> NewDetector]
    /\ first = NoCall
    /\ file = NoFile
    /\ image_paths = <<>>
    /\ preprocess = TRUE
    /\ lines = <<>>
    /\ project_id = 0
    /\ db = NoRows

\* DataExtractor().extract_budget_items(t, f)
Extract(t, f) ==
    /\ pc = "idle"
    /\ pc' = "done"
    /\ op' = "extract"
    /\ text' = t
    /\ format_type' = f
    /\ result' = extract_budget_items(t, f)
    /\ UNCHANGED <<project_id, db, items, instance, ocr_data, detectors, first, others>>

\* DataExtractor()._validate_and_clean_items(candidates)
Normalize(candidates) ==
    /\ pc = "idle"
    /\ pc' = "done"
    /\ op' = "normalize"
    /\ items' = candidates
    /\ result' = validate_and_clean_items(candidates)
    /\ UNCHANGED <<project_id, db, text, format_type, instance, ocr_data, detectors, first, others>>

\* _validate_and_clean_items on the list the last call returned
NormalizeAgain ==
    /\ pc = "done"
    /\ op \in {"extract", "normalize"}
    /\ LET returned == IF op = "extract" THEN result.items ELSE result
       IN /\ items' = returned
          /\ result' = validate_and_clean_items(returned)
    /\ op' = "renormalize"
    /\ UNCHANGED <<pc, project_id, db, text, format_type, instance, ocr_data, detectors, first, others>>

\* detectors[d].detect_format(t, o)
Detect(d, t, o) ==
    /\ pc = "idle"
    /\ \E r \in {detect_format(detectors[d], t, o)} :
          /\ detectors' = [detectors EXCEPT ![d] = r.self]
          /\ result' = r.result
          /\ first' = IF first.set THEN first
                      ELSE [set |-> TRUE, text |-> t, result |-> r.result]
    /\ pc' = "done"
    /\ op' = "detect"
    /\ instance' = d
    /\ text' = t
    /\ ocr_data' = o
    /\ UNCHANGED <<project_id, db, format_type, items, others>>

\* DataExtractor().extract_totals(t)
Totals(t) ==
    /\ pc = "idle"
    /\ pc' = "done"
    /\ op' = "totals"
    /\ text' = StrArg(t)
    /\ result' = extract_totals(t)
    /\ UNCHANGED <<project_id, db, format_type, items, instance, ocr_data, detectors, first, others>>

\* DataExtractor()._extract_from_table(rows)
ExtractTable(rows) ==
    /\ pc = "idle"
    /\ pc' = "done"
    /\ op' = "table"
    /\ lines' = rows
    /\ result' = extract_from_table(rows)
    /\ UNCHANGED <<project_id, db, text, format_type, items, instance, ocr_data, detectors,
                   first,
                   file, image_paths, preprocess>>

\* DataExtractor()._extract_from_list(ls)
ExtractList(ls) ==
    /\ pc = "idle"
    /\ pc' = "done"
    /\ op' = "list"
    /\ lines' = ls
    /\ result' = extract_from_list(ls)
    /\ UNCHANGED <<project_id, db, text, format_type, items, instance, ocr_data, detectors,
                   first,
                   file, image_paths, preprocess>>

\* PDFReader().read_pdf(path), f being what lies at the path
ReadPdf(f) ==
    /\ pc = "idle"
    /\ pc' = "done"
    /\ op' = "read_pdf"
    /\ file' = f
    /\ result' = read_pdf(f)
    /\ UNCHANGED <<project_id, db, text, format_type, items, instance, ocr_data, detectors,
                   first,
                   image_paths, preprocess, lines>>

\* OCRProcessor().batch_process_images(paths, p), images being what lies at the paths
Batch(images, p) ==
    /\ pc = "idle"
    /\ pc' = "done"
    /\ op' = "batch"
    /\ image_paths' = images
    /\ preprocess' = p
    /\ result' = batch_process_images(images, p)
    /\ UNCHANGED <<project_id, db, text, format_type, items, instance, ocr_data, detectors,
                   first,
                   file, lines>>

\* OCRProcessor().process_image(path, p), image being what lies at the path
Process(image, p) ==
    /\ pc = "idle"
    /\ pc' = "done"
    /\ op' = "process_image"
    /\ image_paths' = <<image>>
    /\ preprocess' = p
    /\ result' = process_image(image, p)
    /\ UNCHANGED <<project_id, db, text, format_type, items, instance, ocr_data, detectors,
                   first,
                   file, lines>>

\* POST /pdf/upload with the file f for the project p
Upload(f, p) ==
    /\ pc = "idle"
    /\ Len(db.budgets) < MaxBudgets
    /\ pc' = "done"
    /\ op' = "upload"
    /\ file' = f
    /\ project_id' = p
    /\ \E r \in {upload_pdf(db, f, p)} :
         /\ result' = r
         /\ db' = r.rows
    /\ UNCHANGED <<text, format_type, items, instance, ocr_data, detectors, first,
                   image_paths, preprocess, lines>>

\* the call is over
Return ==
    /\ pc = "done"
    /\ pc' = "idle"
    /\ op' = "none"
    /\ text' = NoneArg
    /\ format_type' = ""
    /\ items' = <<>>
    /\ instance' = 0
    /\ ocr_data' = NoOcr
    /\ result' = <<>>
    /\ file' = NoFile
    /\ image_paths' = <<>>
    /\ preprocess' = TRUE
    /\ lines' = <<>>
    /\ project_id' = 0
    /\ UNCHANGED <<detectors, first, db>>

Next ==
    \/ \E t \in Texts, f \in Hints : Extract(t, f)
    \/ \E candidates \in CandidateLists : Normalize(candidates)
    \/ NormalizeAgain
    \/ \E t \in TotalsTexts : Totals(t)
    \/ \E row \in TableRows : ExtractTable(<<row>>)
    \/ \E ls \in ListLineLists : ExtractList(ls)
    \/ \E f \in Files : ReadPdf(f)
    \/ \E images \in ImageLists, p \in BOOLEAN : Batch(images, p)
    \/ \E image \in PageImages, p \in BOOLEAN : Process(image, p)
    \/ Return

\* the calls on DataExtractor, PDFReader and OCRProcessor objects
Spec == Init /\ [][Next]_vars

\* the calls on the FormatDetector instances, which share nothing with the
\* other objects
DetectorNext ==
    \/ \E d \in 1..NumDetectors, t \in DetectorTexts, o \in OcrData : Detect(d, t, o)
    \/ Return

DetectorSpec == Init /\ [][DetectorNext]_vars

\* the requests to the upload endpoint
UploadNext ==
    \/ \E f \in UploadFiles, p \in ProjectIds : Upload(f, p)
    \/ Return

UploadSpec == Init /\ [][UploadNext]_vars

(***************************************************************************)
(* The claims                                                              *)
(***************************************************************************)
Returned == pc = "done" /\ op = "extract"

Normalized == pc = "done" /\ op \in {"normalize", "renormalize"}

Detected == pc = "done" /\ op = "detect"

Present(x) == x.some

Positive(x) == x.some /\ x.m > 0

\* the key of the claim: the code and the first 50 characters of the description
ClaimKey(item) ==
    <<item.code,
      SubSeq(item.description, 1,
             IF Len(item.description) < 50 THEN Len(item.description) ELSE 50)>>

\* C1: every item extract_budget_items returns, whatever the text and the
\* format hint, has a non-empty description and a quantity or a unit price
\* greater than zero
ValidityInvariant ==
    Returned =>
        \A k \in 1..Len(result.items) :
            /\ result.items[k].description # <<>>
            /\ Positive(result.items[k].quantity) \/ Positive(result.items[k].unit_price)

\* an item is returned of which only the quantity is greater than zero
ValidityWitness ==
    /\ Returned
    /\ \E k \in 1..Len(result.items) :
          Positive(result.items[k].quantity) /\ ~Positive(result.items[k].unit_price)

\* C2: every item extract_budget_items returns has a quantity, a unit price
\* and a unit, and both the quantity and the unit price are greater than zero
CalculatorPrecondition ==
    Returned =>
        \A k \in 1..Len(result.items) :
            /\ Present(result.items[k].quantity) /\ Present(result.items[k].unit_price)
            /\ result.items[k].unit # <<>>
            /\ Positive(result.items[k].quantity) /\ Positive(result.items[k].unit_price)

\* C3: every item the normalizer returns comes from a candidate such that, if
\* the candidate has a quantity and a unit price and no total, the total of
\* the item is exactly their product, and if the candidate has a total, the
\* item has the same total
DerivedTotal ==
    (pc = "done" /\ op = "normalize") =>
        \A k \in 1..Len(result) :
            \E c \in 1..Len(items) :
                /\ items[c].quantity = result[k].quantity
                /\ items[c].unit_price = result[k].unit_price
                /\ (Present(items[c].quantity) /\ Present(items[c].unit_price)
                      /\ ~Present(items[c].total_price))
                   => result[k].total_price = DecMul(items[c].quantity, items[c].unit_price)
                /\ Present(items[c].total_price)
                   => result[k].total_price = items[c].total_price

\* C4: the normalizer returns, of the cleaned valid candidates in their
\* order, exactly those no earlier one shares its key with; so no two items
\* returned share a key
Deduplication ==
    Normalized =>
        LET valid == SelectSeq(items, is_valid_item)
            cleaned == AsSeq([k \in 1..Len(valid) |-> clean_item(valid[k])])
            firsts == SortedSeq({k \in 1..Len(cleaned) :
                                   \A j \in 1..(k - 1) : ClaimKey(cleaned[j]) # ClaimKey(cleaned[k])})
        IN /\ result = AsSeq([k \in 1..Len(firsts) |-> cleaned[firsts[k]]])
           /\ \A i, j \in 1..Len(result) :
                 i # j => ClaimKey(result[i]) # ClaimKey(result[j])

\* two valid candidates whose descriptions differ after the first 50
\* characters only, of which the first alone is returned
DeduplicationWitness ==
    /\ pc = "done" /\ op = "normalize"
    /\ Len(items) = 2 /\ Len(result) = 1
    /\ Len(items[1].description) > 50
    /\ items[1].description # items[2].description
    /\ is_valid_item(items[1]) /\ is_valid_item(items[2])
    /\ result[1].description = items[1].description

\* C5: _validate_and_clean_items applied to the list it returned returns that list
NormalizerIdempotence == (pc = "done" /\ op = "renormalize") => result = items

\* the normalizer is applied again to two items it returned
IdempotenceWitness == pc = "done" /\ op = "renormalize" /\ Len(items) >= 2 /\ Len(result) >= 2

\* C6: extract_budget_items raises nothing and returns a list, whatever the
\* text and the format hint; the list is empty for an empty text, for a text
\* no pattern parses, and for a text that is no string
GracefulDegradation ==
    Returned =>
        /\ ~result.raised
        /\ DOMAIN result.items = 1..Len(result.items)
        /\ text \in {StrArg(<<>>), StrArg(GarbledLine), NoneArg} => result.items = <<>>

\* the garbled text has been extracted from under the mixed format
DegradationWitness ==
    Returned /\ text = StrArg(GarbledLine) /\ format_type = "mixed" /\ result.items = <<>>

\* C7: the table line of scenario 1, extracted with the format table, gives
\* one item: code 01.01.01, description Demolición de concreto, unit m3,
\* quantity 10.00, unit price 150.00, total 1500.00
ScenarioTable ==
    (Returned /\ text = StrArg(TableLine) /\ format_type = "table") =>
        result.items = <<[code |-> <<"0", "1", ".", "0", "1", ".", "0", "1">>,
                          description |-> <<"D", "e", "m", "o", "l", "i", "c", "i", "ó", "n", " ", "d", "e", " ", "c", "o", "n", "c", "r", "e", "t", "o">>,
                          unit |-> <<"m", "3">>,
                          quantity |-> Dec(1000, 2),
                          unit_price |-> Dec(15000, 2),
                          total_price |-> Dec(150000, 2)]>>

\* C8: the list line of scenario 2, extracted with the format list, gives
\* one item: code 01.02.01, quantity 20, unit m3, unit price 80.00 (the
\* groups of the first list pattern) and the derived total 1600.00
ScenarioList ==
    (Returned /\ text = StrArg(ListLine) /\ format_type = "list") =>
        result.items = <<[code |-> <<"0", "1", ".", "0", "2", ".", "0", "1">>,
                          description |-> <<"E", "x", "c", "a", "v", "a", "c", "i", "ó", "n", " ", "m", "a", "n", "u", "a", "l">>,
                          unit |-> <<"m", "3">>,
                          quantity |-> Dec(20, 0),
                          unit_price |-> Dec(8000, 2),
                          total_price |-> Dec(160000, 2)]>>

\* the list line of scenario 2 has been extracted with the format list
ScenarioListWitness ==
    Returned /\ text = StrArg(ListLine) /\ format_type = "list" /\ Len(result.items) = 1

\* C9: a call of detect_format with the text of the first call made, on
\* whichever instance and after whichever calls, returns the format and the
\* scores the first call returned
ClassifierDeterminism ==
    (Detected /\ first.set /\ first.text = text) =>
        /\ result.detected_format = first.result.detected_format
        /\ result.all_scores = first.result.all_scores

\* C10: the format detect_format returns is table, list, mixed or unknown
ClosedLabelSet == Detected => result.detected_format \in {"table", "list", "mixed", "unknown"}

\* C11: every score of a template and the confidence detect_format returns
\* are between 0 and 1 (0 and 60 sixtieths); the result of the except branch
\* has the confidence 0
ConfidenceRange ==
    Detected =>
        /\ result.confidence \in 0..60
        /\ \A k \in 1..Len(result.all_scores) : result.all_scores[k] \in 0..60
        /\ result.error => result.confidence = 0

\* detect_format has scored the four templates, one of them above zero
ConfidenceRangeWitness ==
    /\ Detected /\ ~result.error
    /\ Len(result.all_scores) = Len(known_formats)
    /\ result.confidence > 0

Read == pc = "done" /\ op = "read_pdf"

Batched == pc = "done" /\ op = "batch"

Totalled == pc = "done" /\ op = "totals"

Tabled == pc = "done" /\ op = "table"

\* C12: a document with pages is flagged is_scanned exactly when the average
\* text length of its pages is below 100: the total is below 100 times the
\* number of pages; an average of exactly 100 is not scanned, one of 40 is
ScannedBoundary ==
    (Read /\ result.raised = "none" /\ file.pages # <<>>) =>
        /\ result.data.is_scanned <=> Sum(file.pages) < 100 * Len(file.pages)
        /\ file.pages = <<100>> => ~result.data.is_scanned
        /\ file.pages = <<40>> => result.data.is_scanned

\* two pages of 40 and 160 characters, 100 on average, are read as not scanned
ScannedBoundaryWitness ==
    Read /\ result.raised = "none" /\ file.pages = <<40, 160>> /\ ~result.data.is_scanned

\* C13: read_pdf raises FileNotFoundError when nothing lies at the path, and
\* otherwise ValueError exactly when the size is above 50 MB, a file of
\* exactly 50 MB being read; when it raises either, the document was not
\* opened and no page was loaded
LoaderRejection ==
    Read =>
        /\ ~file.exists => result.raised = "FileNotFoundError"
        /\ file.exists => (result.raised = "ValueError" <=> file.size > 50 * 1024 * 1024)
        /\ (file.exists /\ file.size = 50 * 1024 * 1024) => result.raised = "none"
        /\ result.raised # "none" => ~result.opened /\ result.pages_read = 0

\* a file of exactly 50 MB has been opened and its pages loaded
LoaderRejectionWitness ==
    /\ Read /\ file.exists /\ file.size = 50 * 1024 * 1024
    /\ result.raised = "none" /\ result.opened /\ result.pages_read = Len(file.pages)
    /\ result.pages_read > 0

\* C14: batch_process_images returns one entry per path, in the order of the
\* paths; the entry of a page that fails has an empty text, the confidence 0
\* and an error message, and the entry of every other page, before or after
\* it, is the result of that page
BatchPartialFailure ==
    Batched =>
        /\ Len(result) = Len(image_paths)
        /\ \A k \in 1..Len(image_paths) :
              /\ result[k].image_path = image_paths[k].path
              /\ IF image_paths[k].fault # "none"
                 THEN /\ "error" \in DOMAIN result[k]
                      /\ result[k].error # <<>>
                      /\ result[k].text = <<>>
                      /\ result[k].confidence.num = 0
                 ELSE /\ "error" \notin DOMAIN result[k]
                      /\ result[k].text = image_paths[k].text
                      /\ result[k].word_count > 0

\* a page fails between two pages that are processed
BatchPartialFailureWitness ==
    /\ Batched /\ Len(image_paths) = 3 /\ Len(result) = 3
    /\ image_paths[1].fault = "none" /\ image_paths[2].fault # "none"
    /\ image_paths[3].fault = "none"
    /\ "error" \in DOMAIN result[2] /\ "error" \notin DOMAIN result[3]

\* the order of the keyword groups and the keywords of each, as the claims
\* state them
StatedKeys == <<"subtotal", "tax", "total", "profit">>

StatedKeywords ==
    << {<<"S", "U", "B", "T", "O", "T", "A", "L">>, <<"S", "U", "B", "-", "T", "O", "T", "A", "L">>, <<"S", "U", "B", " ", "T", "O", "T", "A", "L">>},
       {<<"I", "V", "A">>, <<"T", "A", "X">>, <<"I", "M", "P", "U", "E", "S", "T", "O">>},
       {<<"T", "O", "T", "A", "L">>, <<"T", "O", "T", "A", "L", " ", "G", "E", "N", "E", "R", "A", "L">>},
       {<<"B", "E", "N", "E", "F", "I", "C", "I", "O">>, <<"G", "A", "N", "A", "N", "C", "I", "A">>, <<"P", "R", "O", "F", "I", "T">>} >>

\* the first group a keyword of which occurs in the line, 0 when there is none
StatedGroup(line) ==
    LET having == {g \in 1..4 : \E w \in StatedKeywords[g] : Contains(line, w)}
    IN IF having = {} THEN 0 ELSE MinOf(having)

\* the amount written on a line of the texts of the model
StatedAmount(line) ==
    CASE line = Upper(SubtotalLine) -> Dec(1234567, 2)
      [] line = Upper(TotalLine) -> Dec(1500000, 2)
      [] line = Upper(ZeroTotalLine) -> Dec(0, 2)
      [] line = Upper(TotalWithTaxLine) -> Dec(500, 2)
      [] line = Upper(ProfitLine) -> Dec(300, 2)

\* C15: for each keyword group that has a line in the text, extract_totals
\* returns the amount of the last of its lines; the SUBTOTAL line followed by
\* the TOTAL line gives subtotal 12345.67 and total 15000.00
TotalsLastWins ==
    Totalled =>
        LET upper == SplitOn(Upper(text.s), "\n")
        IN /\ \A g \in 1..4 :
                 LET of_group == {k \in 1..Len(upper) : StatedGroup(upper[k]) = g}
                 IN of_group # {} => result[StatedKeys[g]] = StatedAmount(upper[MaxOf(of_group)])
           /\ upper = <<Upper(SubtotalLine), Upper(TotalLine)>> =>
                 result.subtotal = Dec(1234567, 2) /\ result.total = Dec(1500000, 2)

\* C16: a line of the text changes the amount of no keyword group other than
\* the first group, in the order subtotal, tax, total, profit, a keyword of
\* which occurs in the line
TotalsOneGroup ==
    Totalled =>
        With(SplitOn(Upper(text.s), "\n"), LAMBDA upper :
          /\ result = TotalsAfter(upper, Len(upper))
          /\ \A k \in 1..Len(upper) :
                With(TotalsAfter(upper, k - 1), LAMBDA earlier :
                  With(totals_line(earlier, upper[k]), LAMBDA later :
                    \A g \in 1..4 :
                       g # StatedGroup(upper[k]) => later[StatedKeys[g]] = earlier[StatedKeys[g]])))

\* a SUBTOTAL line and a line with TOTAL and IVA have set the subtotal and
\* the tax, and not the total
TotalsOneGroupWitness ==
    /\ Totalled
    /\ text.s = SubtotalLine \o <<"\n">> \o TotalWithTaxLine
    /\ result.subtotal = Dec(1234567, 2) /\ result.tax = Dec(500, 2)
    /\ result.total = Dec(0, 2)

\* the items returned by the call in progress
ReturnedItems == IF op = "extract" THEN result.items ELSE result

IsPlaceholder(code) ==
    /\ Len(code) = 8 /\ SubSeq(code, 1, 5) = <<"A", "U", "T", "O", "_">>
    /\ \A k \in 6..8 : code[k] \in Digits

\* C17: every item returned has a code, that of an item without one being
\* AUTO_ and three digits, and no two items of a result have the same
\* placeholder code
PlaceholderCodes ==
    (Returned \/ Normalized) =>
        /\ \A k \in 1..Len(ReturnedItems) : ReturnedItems[k].code # <<>>
        /\ \A i, j \in 1..Len(ReturnedItems) :
              (i # j /\ IsPlaceholder(ReturnedItems[i].code))
              => ReturnedItems[i].code # ReturnedItems[j].code

\* C18: with the format mixed or unknown, extract_budget_items returns the
\* normalized candidates of one of the three strategies (line breaks,
\* context, patterns) that has the greatest number of candidates
MixedDispatch ==
    (Returned /\ text.isstr /\ format_type \in {"mixed", "unknown"}) =>
        With(SplitOn(clean_text(text.s), "\n"), LAMBDA cleaned :
          With(<<AsSeq(extract_with_line_breaks(cleaned)), AsSeq(extract_with_context(cleaned)),
                 AsSeq(extract_with_patterns(cleaned))>>,
               LAMBDA found :
                 \E k \in 1..3 :
                    /\ \A j \in 1..3 : Len(found[j]) <= Len(found[k])
                    /\ result.items = validate_and_clean_items(found[k])))

\* the columns of a row that are currency amounts: those written with $
CurrencyAmounts(row) ==
    LET amounts == SelectSeq(split_table_row(row), LAMBDA col : Head(col) = "$")
    IN [k \in 1..Len(amounts) |-> Decimal(CleanPrice(amounts[k]))]

\* C19: of a row of at least 4 columns with two or more currency amounts,
\* _extract_from_table returns an item whose unit_price is the smallest and
\* whose total_price is the greatest of the currency amounts of the row
TablePricePolicy ==
    (Tabled /\ Len(lines) = 1) =>
        LET amounts == CurrencyAmounts(lines[1])
        IN (Len(split_table_row(lines[1])) >= 4 /\ Len(amounts) >= 2) =>
              /\ Len(result) = 1
              /\ \E k \in 1..Len(amounts) :
                    /\ \A j \in 1..Len(amounts) : ~DecLess(amounts[j], amounts[k])
                    /\ DecEq(result[1].unit_price, amounts[k])
              /\ \E k \in 1..Len(amounts) :
                    /\ \A j \in 1..Len(amounts) : ~DecLess(amounts[k], amounts[j])
                    /\ DecEq(result[1].total_price, amounts[k])

Analyses == result.details[1]

\* the share, in sixtieths, of the indicators of the k-th template found in
\* the two printed analyses
IndicatorShare(k) ==
    With(StructureStr(Analyses.structure_analysis) \o ContentStr(Analyses.content_analysis),
         LAMBDA searched :
           (60 * Cardinality({i \in 1..Len(known_formats[k].indicators) :
                                Found(Search(known_formats[k].indicators[i], 0, searched,
                                             IgnoreCase))}))
             \div Len(known_formats[k].indicators))

\* C21: when more than 30% of the lines are table lines, the score of the
\* table template, standard_table, is the share of its indicators found plus
\* the bonus 0.3 (18 sixtieths), at most 1.0
TableBonus ==
    (Detected /\ ~result.error /\ Analyses.structure_analysis.has_table_structure) =>
        result.all_scores[1] = Min(IndicatorShare(1) + 18, 60)

\* C27: for every string, detect_format returns chapters_list with the
\* confidence 0.75 (45 sixtieths)
ImplicitChaptersList ==
    (Detected /\ text.isstr) =>
        /\ result.detected_format = "chapters_list"
        /\ result.confidence = 45

Listed == pc = "done" /\ op = "list"

\* a line that continues the description of the most recent item: not empty,
\* no item, not starting with a digit, and of at least 10 characters
Continues(line) ==
    /\ parse_list_item(line) = <<>>
    /\ Strip(line) # <<>>
    /\ Strip(line)[1] \notin Digits
    /\ Len(Strip(line)) >= 10

\* the items after the first k lines, the most recent one last
RECURSIVE StatedList(_, _)
StatedList(ls, k) ==
    IF k = 0 THEN <<>>
    ELSE With(StatedList(ls, k - 1), LAMBDA earlier :
           IF parse_list_item(ls[k]) # <<>> THEN earlier \o parse_list_item(ls[k])
           ELSE IF earlier # <<>> /\ Continues(ls[k])
           THEN [earlier EXCEPT ![Len(earlier)].description = @ \o <<" ">> \o Strip(ls[k])]
           ELSE earlier)

\* C22: in the list strategy a line that is no item, does not start with a
\* digit and has at least 10 characters is appended to the description of
\* the most recent item; any other line, and a line before the first item,
\* changes no item
ListContinuation == Listed => AsSeq(result) = AsSeq(StatedList(lines, Len(lines)))

Processed == pc = "done" /\ op = "process_image"

\* the image process_image was called on
Page == image_paths[1]

\* the mean of the confidences of the boxes of the page that satisfy Counted,
\* 0 when there is none, is the confidence reported
MeanReported(Counted(_)) ==
    With(SelectSeq(Page.boxes, Counted), LAMBDA counted :
      IF counted = <<>> THEN result.data.confidence.num = 0
      ELSE result.data.confidence.num * Len(counted)
             = Sum([k \in 1..Len(counted) |-> counted[k].conf]) * result.data.confidence.den)

\* C23: the confidence reported for a page is the mean of the confidences of
\* all the tokens with a confidence above 0, and 0 when there is none
AggregateConfidence ==
    (Processed /\ ~result.raised) => MeanReported(LAMBDA box : box.conf > 0)

\* C23 as the code has it: the mean is taken over the tokens with a
\* confidence above 0 and a text that is not blank
AggregateConfidenceOfWords ==
    (Processed /\ ~result.raised) =>
        MeanReported(LAMBDA box : box.conf > 0 /\ Strip(box.text) # <<>>)

\* a page with a token of confidence -1 and two words of confidence 90 and
\* 60 is reported with the confidence 75
AggregateConfidenceWitness ==
    /\ Processed /\ ~result.raised
    /\ \E k \in 1..Len(Page.boxes) : Page.boxes[k].conf < 0
    /\ result.data.word_count = 2
    /\ result.data.confidence.num = 75 * result.data.confidence.den

\* the buckets of 10 px of the words reported, and the words of a bucket
Bucket(word) == RoundDiv(word.y, 10) * 10

BucketWords(y_key) == SelectSeq(result.data.words, LAMBDA word : Bucket(word) = y_key)

TableBuckets ==
    SortedSeq({y_key \in {Bucket(result.data.words[k]) : k \in 1..Len(result.data.words)} :
                 Len(BucketWords(y_key)) >= 3})

\* C24: a bucket with at least 3 tokens is a table row; with at least 3 such
\* buckets the rows detected are those buckets by ascending y, each with its
\* tokens, and with fewer no table is detected
OcrTableDetection ==
    (Processed /\ ~result.raised) =>
        IF Len(TableBuckets) >= 3
        THEN /\ Len(result.data.tables_detected) = Len(TableBuckets)
             /\ \A k \in 1..Len(TableBuckets) :
                   /\ result.data.tables_detected[k].y_position = TableBuckets[k]
                   /\ Len(result.data.tables_detected[k].words)
                        = Len(BucketWords(TableBuckets[k]))
        ELSE result.data.tables_detected = <<>>

\* C25: when a step of the preprocessing fails, the image handed on is the
\* image as it was opened, and process_image raises nothing
PreprocessingFallback ==
    (Processed /\ preprocess /\ Page.prefault # "none"
       /\ StepRuns(PilImage(Page.mode, Page.size), Page.prefault)) =>
        /\ ~result.raised
        /\ result.image = PilImage(Page.mode, Page.size)

\* C26: a page on which the backend fails on the first call only is reported
\* with its recognized text and without an error
OcrRetry ==
    Batched =>
        \A k \in 1..Len(image_paths) :
           image_paths[k].fault = "ocr_once" =>
              /\ "error" \notin DOMAIN result[k]
              /\ result[k].text = image_paths[k].text

\* C28: extract_budget_items with the format table returns the empty list,
\* whatever the text
TableFormatEmpty == (Returned /\ format_type = "table") => result.items = <<>>

\* the table strategy has been run on a text whose rows, taken as they are
\* written, split into 4 columns and give items
TableFormatEmptyWitness ==
    /\ Returned /\ format_type = "table" /\ text.isstr /\ result.strategy = "table"
    /\ extract_from_table(SplitOn(text.s, "\n")) # <<>>
    /\ result.items = <<>>

\* C29: without a format hint the strategies receive one line, the format
\* detected is unknown, and the strategy run is the scan of the patterns
NoHintScansPatterns ==
    (Returned /\ format_type = "" /\ text.isstr) =>
        /\ Len(result.lines) = 1
        /\ \A i \in 1..Len(result.lines[1]) : result.lines[1][i] # "\n"
        /\ result.format_type = "unknown"
        /\ result.strategy = "patterns"

\* a text of three rows, which taken as they are written are table rows, has
\* been extracted without a hint
NoHintWitness ==
    /\ Returned /\ format_type = "" /\ text.isstr
    /\ Len(SplitOn(text.s, "\n")) = 3
    /\ extractor_detect_format(SplitOn(text.s, "\n")) = "table"
    /\ result.strategy = "patterns"

\* a request to the upload endpoint has been answered
Uploaded == pc = "done" /\ op = "upload"

\* the budgets the request stored, and the items stored with them
UploadedBudgets == {k \in 1..Len(db.budgets) : db.budgets[k].id = result.db_budget}

UploadedItems == SelectSeq(db.budget_items, LAMBDA row : row.budget_id = result.db_budget)

====
